---- MODULE Spec2Model ----
(***************************************************************************)
(* Device drivers of the microscope package: the OBIS laser driver         *)
(* (lasers/obis.py), the Alpao and BMC deformable-mirror drivers           *)
(* (mirror/alpao.py, mirror/bmc.py), as far as they run, and the mock      *)
(* shared libraries (testsuite/libs.py).                                   *)
(*                                                                         *)
(* The laser is a set of caller threads, each running one driver method at *)
(* a time as a stack of frames; every operation on the serial connection   *)
(* (one write, one readline) and every lock acquisition is one step.       *)
(***************************************************************************)
EXTENDS Integers, Sequences, FiniteSets, TLC

VARIABLES
  _max_power,   \* ObisLaser._max_power, mW
  _min_power,   \* ObisLaser._min_power, mW
  handshaking,  \* the laser's handshake mode after the constructor's exchanges
  active,       \* the caller threads that use the laser
  lockOwner,    \* owner of the device's comms lock, 0 when free
  lockCount,    \* recursion depth of the comms lock
  stack,        \* per thread: the frames of the driver methods it is running
  ret,          \* per thread: value handed back by the frame that just returned
  result,       \* per thread: what its last top-level call returned or raised
  lastcall,     \* per thread: the top-level call it made last
  log,          \* per thread: commands written and replies read by that call
  isOnReply,    \* per thread: the reply get_is_on read last
  rx,           \* the connection's input buffer: the lines the laser emitted
  xch,          \* per thread: its current or last command/response exchange
  quota,        \* top-level operations the callers may still start
  mlast,        \* what was last tried on a mirror driver, and how it ended
  cdll,         \* the testsuite CDLL object: its name, handle and cached symbols
  lookup        \* the attribute looked up on it last, and what the lookup gave

laserVars == <<_max_power, _min_power, handshaking, active, lockOwner,
               lockCount, stack, ret, result, lastcall, log, isOnReply, rx,
               xch, quota>>

mirrorVars == <<mlast>>

libVars == <<cdll, lookup>>

(* ------------------------------- bounds ------------------------------- *)

NThreads == 2

\* Operations started in a run: by the single caller, by concurrent callers.
MaxCalls == 3
MaxConcCalls == 2

Threads == 1..NThreads

(* ------------------------------ values -------------------------------- *)

None == [t |-> "none"]
Bool(b) == [t |-> "bool", b |-> b]
Str(s) == [t |-> "str", s |-> s]
List(l) == [t |-> "list", l |-> l]
Exc(e) == [t |-> "exc", e |-> e]

IsTrue(v) == v.t = "bool" /\ v.b

(* ----------------------------- byte strings --------------------------- *)

\* The six bytes bytes.strip() removes: space, \t, \n, \r, \f and the
\* vertical tab 0x0b (the last string of the set).
Whitespace == {" ", "\t", "\n", "\r", "\f", ""}

\* s without the leading and trailing characters that are in cs
StripChars(s, cs) ==
  LET first == CHOOSE i \in 1..(Len(s) + 1) :
                 /\ i > Len(s) \/ SubSeq(s, i, i) \notin cs
                 /\ \A j \in 1..(i - 1) : SubSeq(s, j, j) \in cs
  IN IF first > Len(s) THEN ""
     ELSE SubSeq(s, first,
                 CHOOSE i \in first..Len(s) :
                   /\ SubSeq(s, i, i) \notin cs
                   /\ \A j \in (i + 1)..Len(s) : SubSeq(s, j, j) \in cs)

\* bytes.strip()
Strip(s) == StripChars(s, Whitespace)

\* response[:3]
Prefix3(s) == SubSeq(s, 1, IF Len(s) < 3 THEN Len(s) ELSE 3)

Digits == "0123456789"

IsDigit(c) == \E i \in 1..10 : SubSeq(Digits, i, i) = c

DigitVal(c) == (CHOOSE i \in 1..10 : SubSeq(Digits, i, i) = c) - 1

DigitChar(d) == SubSeq(Digits, d + 1, d + 1)

(* ------------------------- whole numbers of any size ------------------- *)
(* Python's floats are IEEE 754 doubles.  Their 53-bit significands, and   *)
(* the exact values float() and '%.5f' work on, do not fit the model       *)
(* checker's integers, so they are kept as sequences of limbs of three     *)
(* decimal digits, least significant first, <<>> being 0.  The operations  *)
(* split their range in halves, which keeps their nesting shallow, and     *)
(* name their intermediate results through Let, which works each of them   *)
(* out once however often it is used.                                      *)

\* F(e), e being worked out once for all its uses in F
Let(F(_), e) == CHOOSE y \in {F(v) : v \in {e}} : TRUE

Limb == 1000

BigNorm(a) ==
  Let(LAMBDA q :
        SubSeq(q, 1, CHOOSE i \in 0..Len(q) :
                       /\ i = 0 \/ q[i] # 0
                       /\ \A j \in (i + 1)..Len(q) : q[j] = 0),
      a)

\* n as limbs, for 0 <= n < 2^31
BigOfNat(n) ==
  BigNorm(<< n % Limb, (n \div Limb) % Limb, (n \div (Limb * Limb)) % Limb,
             n \div (Limb * Limb * Limb) >>)

BigLimb(a, i) == IF 1 <= i /\ i <= Len(a) THEN a[i] ELSE 0

\* -1, 0 or 1 as a < b, a = b or a > b
BigCmp(a, b) ==
  Let(LAMBDA p :
        IF Len(p[1]) # Len(p[2]) THEN (IF Len(p[1]) < Len(p[2]) THEN -1 ELSE 1)
        ELSE Let(LAMBDA d :
                   IF d = {} THEN 0
                   ELSE Let(LAMBDA j : IF p[1][j] < p[2][j] THEN -1 ELSE 1,
                            CHOOSE i \in d : \A k \in d : k <= i),
                 {i \in 1..Len(p[1]) : p[1][i] # p[2][i]}),
      <<a, b>>)

\* limbs lo..hi of a + b + c, and the carry out of them
RECURSIVE BigAddSeg(_, _, _, _, _)
BigAddSeg(a, b, lo, hi, c) ==
  IF lo = hi
  THEN Let(LAMBDA s : [d |-> <<s % Limb>>, c |-> s \div Limb],
           BigLimb(a, lo) + BigLimb(b, lo) + c)
  ELSE Let(LAMBDA mid :
             Let(LAMBDA l :
                   Let(LAMBDA h : [d |-> l.d \o h.d, c |-> h.c],
                       BigAddSeg(a, b, mid + 1, hi, l.c)),
                 BigAddSeg(a, b, lo, mid, c)),
           (lo + hi) \div 2)

BigAdd(a, b) ==
  Let(LAMBDA p :
        IF p[1] = <<>> THEN p[2]
        ELSE IF p[2] = <<>> THEN p[1]
        ELSE Let(LAMBDA s : IF s.c = 0 THEN s.d ELSE Append(s.d, s.c),
                 BigAddSeg(p[1], p[2], 1,
                           IF Len(p[1]) > Len(p[2]) THEN Len(p[1]) ELSE Len(p[2]),
                           0)),
      <<a, b>>)

\* limbs lo..hi of a - b - c, and the borrow out of them
RECURSIVE BigSubSeg(_, _, _, _, _)
BigSubSeg(a, b, lo, hi, c) ==
  IF lo = hi
  THEN Let(LAMBDA s : IF s < 0 THEN [d |-> <<s + Limb>>, c |-> 1]
                      ELSE [d |-> <<s>>, c |-> 0],
           a[lo] - BigLimb(b, lo) - c)
  ELSE Let(LAMBDA mid :
             Let(LAMBDA l :
                   Let(LAMBDA h : [d |-> l.d \o h.d, c |-> h.c],
                       BigSubSeg(a, b, mid + 1, hi, l.c)),
                 BigSubSeg(a, b, lo, mid, c)),
           (lo + hi) \div 2)

\* a - b, for a >= b
BigSub(a, b) ==
  Let(LAMBDA p :
        IF p[1] = <<>> THEN <<>>
        ELSE BigNorm(BigSubSeg(p[1], p[2], 1, Len(p[1]), 0).d),
      <<a, b>>)

\* limbs lo..hi of a * k + c, and the carry out of them
RECURSIVE BigMulSeg(_, _, _, _, _)
BigMulSeg(a, k, lo, hi, c) ==
  IF lo = hi
  THEN Let(LAMBDA s : [d |-> <<s % Limb>>, c |-> s \div Limb], a[lo] * k + c)
  ELSE Let(LAMBDA mid :
             Let(LAMBDA l :
                   Let(LAMBDA h : [d |-> l.d \o h.d, c |-> h.c],
                       BigMulSeg(a, k, mid + 1, hi, l.c)),
                 BigMulSeg(a, k, lo, mid, c)),
           (lo + hi) \div 2)

\* a * k, for 0 <= k <= 10^6
BigMulSmall(a, k) ==
  Let(LAMBDA p :
        IF p[1] = <<>> \/ p[2] = 0 THEN <<>>
        ELSE Let(LAMBDA s : s.d \o BigOfNat(s.c),
                 BigMulSeg(p[1], p[2], 1, Len(p[1]), 0)),
      <<a, k>>)

\* a * Limb^n
BigShift(a, n) ==
  Let(LAMBDA p : IF p[1] = <<>> THEN <<>> ELSE [i \in 1..p[2] |-> 0] \o p[1],
      <<a, n>>)

\* a * 10^n
BigShift10(a, n) == BigMulSmall(BigShift(a, n \div 3), 10 ^ (n % 3))

\* a times the limbs lo..hi of b, each at its place
RECURSIVE BigMulRange(_, _, _, _)
BigMulRange(a, b, lo, hi) ==
  IF lo = hi THEN BigShift(BigMulSmall(a, b[lo]), lo - 1)
  ELSE Let(LAMBDA mid :
             BigAdd(BigMulRange(a, b, lo, mid), BigMulRange(a, b, mid + 1, hi)),
           (lo + hi) \div 2)

BigMul(a, b) ==
  Let(LAMBDA p :
        IF p[1] = <<>> \/ p[2] = <<>> THEN <<>>
        ELSE BigMulRange(p[1], p[2], 1, Len(p[2])),
      <<a, b>>)

RECURSIVE BigPow2(_)
BigPow2(n) ==
  IF n <= 30 THEN BigOfNat(2 ^ n)
  ELSE Let(LAMBDA h : IF n % 2 = 0 THEN BigMul(h, h)
                      ELSE BigMulSmall(BigMul(h, h), 2),
           BigPow2(n \div 2))

\* the largest d in lo..hi with b * d <= r, b * lo <= r being given
RECURSIVE BigQuotLimb(_, _, _, _)
BigQuotLimb(b, r, lo, hi) ==
  IF lo = hi THEN lo
  ELSE Let(LAMBDA mid :
             IF BigCmp(BigMulSmall(b, mid), r) <= 0
             THEN BigQuotLimb(b, r, mid, hi)
             ELSE BigQuotLimb(b, r, lo, mid - 1),
           (lo + hi + 1) \div 2)

\* long division of the limbs hi..lo of a, r being the remainder so far
RECURSIVE BigDivSeg(_, _, _, _, _)
BigDivSeg(a, b, lo, hi, r) ==
  IF lo = hi
  THEN Let(LAMBDA r1 :
             Let(LAMBDA d : [q |-> <<d>>, r |-> BigSub(r1, BigMulSmall(b, d))],
                 BigQuotLimb(b, r1, 0, Limb - 1)),
           BigNorm(<<a[lo]>> \o r))
  ELSE Let(LAMBDA mid :
             Let(LAMBDA h :
                   Let(LAMBDA l : [q |-> l.q \o h.q, r |-> l.r],
                       BigDivSeg(a, b, lo, mid, h.r)),
                 BigDivSeg(a, b, mid + 1, hi, r)),
           (lo + hi) \div 2)

\* quotient and remainder of a by b, for b > 0
BigDivMod(a, b) ==
  Let(LAMBDA p :
        IF p[2] = <<1>> THEN [q |-> p[1], r |-> <<>>]
        ELSE IF BigCmp(p[1], p[2]) < 0 THEN [q |-> <<>>, r |-> p[1]]
        ELSE Let(LAMBDA d : [q |-> BigNorm(d.q), r |-> d.r],
                 BigDivSeg(p[1], p[2], 1, Len(p[1]) - Len(p[2]) + 1,
                           SubSeq(p[1], Len(p[1]) - Len(p[2]) + 2, Len(p[1])))),
      <<a, b>>)

BigOdd(a) == Len(a) > 0 /\ a[1] % 2 = 1

\* a / b rounded to the nearest whole number, a tie to the even one
BigRoundDiv(a, b) ==
  Let(LAMBDA p :
        Let(LAMBDA d :
              Let(LAMBDA c : IF c > 0 \/ (c = 0 /\ BigOdd(d.q))
                             THEN BigAdd(d.q, <<1>>) ELSE d.q,
                  BigCmp(BigMulSmall(d.r, 2), p[2])),
            BigDivMod(p[1], p[2])),
      <<a, b>>)

\* the number of decimal digits of a
BigDecimalLen(a) ==
  Let(LAMBDA q :
        IF q = <<>> THEN 0
        ELSE 3 * (Len(q) - 1)
               + (IF q[Len(q)] >= 100 THEN 3 ELSE IF q[Len(q)] >= 10 THEN 2 ELSE 1),
      a)

\* the number a string of decimal digits writes
BigOfStr(s) ==
  Let(LAMBDA t :
        LET at(p) == IF p >= 1 THEN DigitVal(SubSeq(t, p, p)) ELSE 0
        IN BigNorm(SubSeq([i \in 1..((Len(t) + 2) \div 3) |->
                             at(Len(t) - 3 * i + 3) + 10 * at(Len(t) - 3 * i + 2)
                               + 100 * at(Len(t) - 3 * i + 1)],
                          1, (Len(t) + 2) \div 3)),
      s)

LimbStr(d) ==
  DigitChar(d \div 100) \o DigitChar((d \div 10) % 10) \o DigitChar(d % 10)

RECURSIVE BigStrSeg(_, _, _)
BigStrSeg(a, lo, hi) ==
  IF lo = hi THEN LimbStr(a[lo])
  ELSE Let(LAMBDA mid : BigStrSeg(a, mid + 1, hi) \o BigStrSeg(a, lo, mid),
           (lo + hi) \div 2)

\* a in decimal
BigStr(a) ==
  Let(LAMBDA q :
        IF q = <<>> THEN "0"
        ELSE Let(LAMBDA s : SubSeq(s, Len(s) - BigDecimalLen(q) + 1, Len(s)),
                 BigStrSeg(q, 1, Len(q))),
      a)

\* a / 2^k for k in 1..3, a being a multiple of 2^k
BigHalve(a, k) ==
  Let(LAMBDA p : SubSeq(p, 2, Len(p)), BigMulSmall(a, Limb \div (2 ^ k)))

(* ------------------------------- floats ------------------------------- *)
(* A finite double is its sign and mant * 2^exp, mant a whole number in    *)
(* decimal that is odd, or "0" with exp 0; "inf" and "nan" stand in mant   *)
(* for the infinities and for not-a-number.                                *)

MantBits == 53
MinExp == -1074
MaxExp == 971

FloatInf(neg) == [t |-> "float", neg |-> neg, mant |-> "inf", exp |-> 0]
FloatNaN == [t |-> "float", neg |-> FALSE, mant |-> "nan", exp |-> 0]
FloatZero(neg) == [t |-> "float", neg |-> neg, mant |-> "0", exp |-> 0]

IsFinite(x) == x.mant \notin {"inf", "nan"}

\* The double m * 2^e, for 0 < m < 2^53, with its significand made odd.
RECURSIVE FloatOdd(_, _, _)
FloatOdd(neg, m, e) ==
  IF m[1] % 8 = 0
  THEN Let(LAMBDA h : FloatOdd(neg, h, e + 3), BigHalve(m, 3))
  ELSE IF m[1] % 4 = 0
  THEN [t |-> "float", neg |-> neg, mant |-> BigStr(BigHalve(m, 2)), exp |-> e + 2]
  ELSE IF m[1] % 2 = 0
  THEN [t |-> "float", neg |-> neg, mant |-> BigStr(BigHalve(m, 1)), exp |-> e + 1]
  ELSE [t |-> "float", neg |-> neg, mant |-> BigStr(m), exp |-> e]

\* An exponent e with a / b >= 2^(e + MantBits - 1), and MinExp at least:
\* a / b > 10^d for the d below, and 10^d >= 2^(3.322 d - 1).
FloatExpLow(a, b) ==
  Let(LAMBDA low : IF low - (MantBits - 1) < MinExp THEN MinExp
                   ELSE low - (MantBits - 1),
      ((BigDecimalLen(a) - BigDecimalLen(b) - 1) * 33220) \div 10000 - 1)

\* The least t with num / den < 2^(MantBits + t)
FloatExtraBits(num, den) ==
  Let(LAMBDA top :
        CHOOSE t \in 0..16 :
          /\ BigCmp(num, BigMulSmall(top, 2 ^ t)) < 0
          /\ t = 0 \/ BigCmp(num, BigMulSmall(top, 2 ^ (t - 1))) >= 0,
      BigMul(den, BigPow2(MantBits)))

\* The double nearest to (num / den) * 2^e (round half to even), for
\* num / den < 2^MantBits, and at least 2^(MantBits - 1) unless e = MinExp.
FloatNearest(neg, num, den, e) ==
  Let(LAMBDA m :
        IF BigCmp(m, BigPow2(MantBits)) = 0
        THEN (IF e + 1 > MaxExp THEN FloatInf(neg)
              ELSE FloatOdd(neg, <<1>>, e + MantBits))
        ELSE IF e > MaxExp THEN FloatInf(neg)
        ELSE IF m = <<>> THEN FloatZero(neg)
        ELSE FloatOdd(neg, m, e),
      BigRoundDiv(num, den))

\* The double nearest to a / b (round half to even), for b > 0.
FloatRound(neg, a, b) ==
  Let(LAMBDA p :
        IF p[1] = <<>> THEN FloatZero(neg)
        ELSE Let(LAMBDA e0 :
                   Let(LAMBDA s :
                         Let(LAMBDA t : FloatNearest(neg, s[1],
                                                     BigMulSmall(s[2], 2 ^ t), e0 + t),
                             FloatExtraBits(s[1], s[2])),
                       << BigMul(p[1], BigPow2(IF e0 < 0 THEN -e0 ELSE 0)),
                          BigMul(p[2], BigPow2(IF e0 > 0 THEN e0 ELSE 0)) >>),
                 FloatExpLow(p[1], p[2])),
      <<a, b>>)

\* The value of a finite double as the fraction FloatNum / FloatDen.
FloatNum(x) == BigMul(BigOfStr(x.mant), BigPow2(IF x.exp > 0 THEN x.exp ELSE 0))

FloatDen(x) == BigPow2(IF x.exp < 0 THEN -x.exp ELSE 0)

\* x * k for a float x and a whole number 0 < k <= 10^6
FloatTimes(x, k) ==
  Let(LAMBDA v : IF ~IsFinite(v) THEN v
                 ELSE FloatRound(v.neg, BigMulSmall(FloatNum(v), k), FloatDen(v)),
      x)

\* n / k as Python divides the int n by the float k, k a whole number
IntOver(n, k) ==
  FloatRound(n < 0, BigOfNat(IF n < 0 THEN -n ELSE n), BigOfNat(k))

\* n > x for an int n and a float x: Python compares the exact values
IntGreater(n, x) ==
  Let(LAMBDA v :
        IF v.mant = "nan" THEN FALSE
        ELSE IF v.mant = "inf" THEN v.neg
        ELSE Let(LAMBDA c : IF n < 0 THEN v.neg /\ c < 0
                            ELSE IF v.neg THEN n > 0 \/ v.mant # "0"
                            ELSE c > 0,
                 BigCmp(BigMul(FloatDen(v), BigOfNat(IF n < 0 THEN -n ELSE n)),
                        FloatNum(v))),
      x)

\* '%.5f' % x
Format5f(x) ==
  Let(LAMBDA v :
        IF v.mant = "nan" THEN "nan"
        ELSE IF v.mant = "inf" THEN (IF v.neg THEN "-inf" ELSE "inf")
        ELSE Let(LAMBDA n :
                   Let(LAMBDA d : (IF v.neg THEN "-" ELSE "")
                                    \o SubSeq(d, 1, Len(d) - 5) \o "."
                                    \o SubSeq(d, Len(d) - 4, Len(d)),
                       SubSeq("00000", 1, 6 - Len(n)) \o n),
                 BigStr(BigRoundDiv(BigShift10(FloatNum(v), 5), FloatDen(v)))),
      x)

(* -------------------------------- UTF-8 ------------------------------ *)
(* A bytes object is a string with one character for each byte, the       *)
(* character U+0000 to U+00FF of the byte's value.  A str is written as    *)
(* its UTF-8 encoding, which is the bytes object decode() made it from.    *)

Positions(s, cs) == {i \in 1..Len(s) : SubSeq(s, i, i) \in cs}

\* the least of a set of positions, or the position `none` for the empty set
FirstOf(ps, none) ==
  IF ps = {} THEN none ELSE CHOOSE i \in ps : \A j \in ps : i <= j

\* The bytes 0x80 to 0xff, in the order of their values.
HighBytes ==
  " ¡¢£¤¥¦§¨©ª«¬­®¯°±²³´µ¶·¸¹º»¼½¾¿ÀÁÂÃÄÅÆÇÈÉÊËÌÍÎÏÐÑÒÓÔÕÖ×ØÙÚÛÜÝÞßàáâãäåæçèéêëìíîïðñòóôõö÷øùúûüýþÿ"

\* The value of each of them.
HighValue ==
  [c \in {SubSeq(HighBytes, i, i) : i \in 1..Len(HighBytes)} |->
     127 + CHOOSE i \in 1..Len(HighBytes) : SubSeq(HighBytes, i, i) = c]

\* The value of byte i of s when it is 0x80 or more; 0 when it is an ASCII
\* byte or s has no byte i.
HighByte(s, i) ==
  IF 1 <= i /\ i <= Len(s) /\ SubSeq(s, i, i) \in DOMAIN HighValue
  THEN HighValue[SubSeq(s, i, i)] ELSE 0

\* A continuation byte, 0x80 to 0xbf.
IsContinuation(v) == 128 <= v /\ v <= 191

\* The number of bytes of the character a byte of value v begins: 0xc2 to
\* 0xdf begin two bytes, 0xe0 to 0xef three, 0xf0 to 0xf4 four; no
\* character begins with another byte of 0x80 or more.
SequenceLen(v) ==
  IF v < 128 THEN 1
  ELSE IF 194 <= v /\ v <= 223 THEN 2
  ELSE IF 224 <= v /\ v <= 239 THEN 3
  ELSE IF 240 <= v /\ v <= 244 THEN 4
  ELSE 0

\* The bytes b are the UTF-8 encoding of a text: every leading byte is
\* followed by its continuation bytes, the first of them in the range that
\* excludes overlong forms, surrogates and code points above U+10FFFF, and
\* every continuation byte belongs to a leading byte.
IsUTF8(b) ==
  \A i \in Positions(b, DOMAIN HighValue) :
    Let(LAMBDA v :
          IF IsContinuation(v[4])
          THEN \/ SequenceLen(v[3]) >= 2
               \/ IsContinuation(v[3]) /\ SequenceLen(v[2]) >= 3
               \/ IsContinuation(v[3]) /\ IsContinuation(v[2])
                    /\ SequenceLen(v[1]) = 4
          ELSE /\ SequenceLen(v[4]) >= 2
               /\ \A k \in 1..(SequenceLen(v[4]) - 1) : IsContinuation(v[4 + k])
               /\ v[4] = 224 => v[5] >= 160
               /\ v[4] = 237 => v[5] <= 159
               /\ v[4] = 240 => v[5] >= 144
               /\ v[4] = 244 => v[5] <= 143,
        [k \in 1..7 |-> HighByte(b, i + k - 4)])

\* bytes.decode(): the str, or UnicodeDecodeError
decode(b) == IF IsUTF8(b) THEN Str(b) ELSE Exc("UnicodeDecodeError")

\* The code point of the character of the str s that begins at byte i.
CodePoint(s, i) ==
  Let(LAMBDA v :
        IF SequenceLen(v[1]) = 2 THEN (v[1] - 192) * 64 + (v[2] - 128)
        ELSE IF SequenceLen(v[1]) = 3
        THEN (v[1] - 224) * 4096 + (v[2] - 128) * 64 + (v[3] - 128)
        ELSE (v[1] - 240) * 262144 + (v[2] - 128) * 4096 + (v[3] - 128) * 64
               + (v[4] - 128),
      [k \in 1..4 |-> HighByte(s, i + k - 1)])

\* The white space characters above U+007F.
UnicodeSpaces ==
  {133, 160, 5760} \cup (8192..8202) \cup {8232, 8233, 8239, 8287, 12288}

\* The characters that are the decimal digit 0 of a script; the digits 1 to
\* 9 of the script are the nine characters after it.
UnicodeZeros ==
  {1632, 1776, 1984, 2406, 2534, 2662, 2790, 2918, 3046, 3174, 3302, 3430,
   3558, 3664, 3792, 3872, 4160, 4240, 6112, 6160, 6470, 6608, 6784, 6800,
   6992, 7088, 7232, 7248, 42528, 43216, 43264, 43472, 43504, 43600, 44016,
   65296, 66720, 68912, 69734, 69872, 69942, 70096, 70384, 70736, 70864,
   71248, 71360, 71472, 71904, 72016, 72784, 73040, 73120, 92768, 92864,
   93008, 120782, 120792, 120802, 120812, 120822, 123200, 123632, 125264,
   130032}

\* The ASCII character float() reads for the character of code point cp,
\* above U+007F: a space for white space, the digit for a decimal digit,
\* a question mark for every other character.
TransformChar(cp) ==
  IF cp \in UnicodeSpaces THEN " "
  ELSE Let(LAMBDA z : IF z = {} THEN "?"
                      ELSE DigitChar(cp - CHOOSE n \in z : TRUE),
           {n \in UnicodeZeros : n <= cp /\ cp <= n + 9})

\* bytes lo..hi of the str s, every character above U+007F replaced by the
\* ASCII character float() reads for it; high holds the positions of the
\* bytes of these characters.
RECURSIVE TransformSeg(_, _, _, _)
TransformSeg(s, high, lo, hi) ==
  IF lo > hi THEN ""
  ELSE IF \A i \in high : i < lo \/ i > hi THEN SubSeq(s, lo, hi)
  ELSE IF lo = hi
  THEN (IF IsContinuation(HighByte(s, lo)) THEN ""
        ELSE TransformChar(CodePoint(s, lo)))
  ELSE Let(LAMBDA m : TransformSeg(s, {i \in high : i <= m}, lo, m)
                        \o TransformSeg(s, {i \in high : i > m}, m + 1, hi),
           (lo + hi) \div 2)

\* What float() parses for the str s: s with its white space and decimal
\* digits above U+007F made ASCII, up to the first other character above
\* U+007F, a question mark.
TransformDecimalAndSpaceToASCII(s) ==
  Let(LAMBDA high :
        IF high = {} THEN s
        ELSE Let(LAMBDA bad :
                   TransformSeg(s, {i \in high : i <= bad}, 1, bad),
                 FirstOf({i \in high :
                            /\ ~IsContinuation(HighByte(s, i))
                            /\ TransformChar(CodePoint(s, i)) = "?"},
                         Len(s))),
      Positions(s, DOMAIN HighValue))

(* ------------------------------ float(str) ---------------------------- *)

LowerChar(c) ==
  LET upper == "AEFINTY"
      lower == "aefinty"
      at == {i \in 1..Len(upper) : SubSeq(upper, i, i) = c}
  IN IF at = {} THEN c ELSE SubSeq(lower, CHOOSE i \in at : TRUE, CHOOSE i \in at : TRUE)

\* s is the word w, whatever the case of its letters
IsWord(s, w) ==
  /\ Len(s) = Len(w)
  /\ \A i \in 1..Len(s) : LowerChar(SubSeq(s, i, i)) = SubSeq(w, i, i)

\* digit (["_"] digit)*
IsDigitPart(s) ==
  /\ Len(s) > 0
  /\ \A i \in 1..Len(s) :
       \/ IsDigit(SubSeq(s, i, i))
       \/ /\ SubSeq(s, i, i) = "_"
          /\ 1 < i /\ i < Len(s)
          /\ IsDigit(SubSeq(s, i - 1, i - 1))
          /\ IsDigit(SubSeq(s, i + 1, i + 1))

RECURSIVE DropUnderscores(_)
DropUnderscores(s) ==
  IF Len(s) <= 1 THEN (IF s = "_" THEN "" ELSE s)
  ELSE Let(LAMBDA t : DropUnderscores(SubSeq(t, 1, Len(t) \div 2))
                        \o DropUnderscores(SubSeq(t, Len(t) \div 2 + 1, Len(t))),
           s)

NotANumber == [ok |-> FALSE]

\* The mantissa mant and the exponent expo of a literal, as its integer
\* digits, fraction digits and exponent; NotANumber when they are not of the
\* form of a number.  hasExp tells whether the literal has an exponent part.
ParseParts(neg, mant, hasExp, expo) ==
  LET eSigned == Len(expo) > 0 /\ SubSeq(expo, 1, 1) \in {"+", "-"}
      eDigits == IF eSigned THEN SubSeq(expo, 2, Len(expo)) ELSE expo
      dots == Positions(mant, {"."})
      dot == FirstOf(dots, Len(mant) + 1)
      int == SubSeq(mant, 1, dot - 1)
      frac == SubSeq(mant, dot + 1, Len(mant))
  IN IF /\ int = "" => dots # {} /\ frac # ""
        /\ int # "" => IsDigitPart(int)
        /\ frac # "" => IsDigitPart(frac)
        /\ hasExp => IsDigitPart(eDigits)
     THEN [ok |-> TRUE, neg |-> neg,
           int |-> DropUnderscores(int), frac |-> DropUnderscores(frac),
           eNeg |-> eSigned /\ SubSeq(expo, 1, 1) = "-",
           exp |-> DropUnderscores(eDigits)]
     ELSE NotANumber

\* A numeric string as its sign, integer digits, fraction digits and
\* exponent; NotANumber for any other string.
ParseNumber(s) ==
  LET signed == Len(s) > 0 /\ SubSeq(s, 1, 1) \in {"+", "-"}
  IN Let(LAMBDA body :
           Let(LAMBDA ePos :
                 Let(LAMBDA m : ParseParts(signed /\ SubSeq(s, 1, 1) = "-",
                                           m[1], ePos <= Len(body), m[2]),
                     << SubSeq(body, 1, ePos - 1),
                        SubSeq(body, ePos + 1, Len(body)) >>),
               FirstOf(Positions(body, {"e", "E"}), Len(body) + 1)),
         IF signed THEN SubSeq(s, 2, Len(s)) ELSE s)

\* the number the limbs x are, for x < 2^31
BigToNat(x) ==
  BigLimb(x, 1) + Limb * BigLimb(x, 2) + Limb * Limb * BigLimb(x, 3)
    + Limb * Limb * Limb * BigLimb(x, 4)

\* x < n and x > n, for limbs x and an integer n
BigBelow(x, n) == n > 0 /\ BigCmp(x, BigOfNat(n)) < 0
BigAbove(x, n) == n < 0 \/ BigCmp(x, BigOfNat(n)) > 0

\* Every double that is neither zero nor infinite lies between 10^DecimalMin
\* and 10^DecimalMax.
DecimalMax == 310
DecimalMin == -330

\* The double nearest to d * 10^(x - nfrac), or to d * 10^(-x - nfrac) when
\* eNeg, for the sign neg, limbs d and x and an integer nfrac.
FloatOfDecimal(neg, d, eNeg, x, nfrac) ==
  IF d = <<>> THEN FloatZero(neg)
  ELSE Let(LAMBDA nd :
             IF IF eNeg THEN BigBelow(x, nd - nfrac - DecimalMax)
                ELSE BigAbove(x, DecimalMax + nfrac - nd)
             THEN FloatInf(neg)
             ELSE IF IF eNeg THEN BigAbove(x, nd - nfrac - DecimalMin)
                     ELSE BigBelow(x, DecimalMin + nfrac - nd)
             THEN FloatZero(neg)
             ELSE Let(LAMBDA e :
                        IF e >= 0 THEN FloatRound(neg, BigShift10(d, e), <<1>>)
                        ELSE FloatRound(neg, d, BigShift10(<<1>>, -e)),
                      (IF eNeg THEN -BigToNat(x) ELSE BigToNat(x)) - nfrac),
           BigDecimalLen(d))

\* The double a literal writes, from its parts: the digits before and after
\* the point, without the zeros that end them, times the power of ten.
FloatOfParts(p) ==
  Let(LAMBDA ds :
        Let(LAMBDA last :
              FloatOfDecimal(p.neg, BigOfStr(SubSeq(ds, 1, last)), p.eNeg,
                             BigOfStr(p.exp), Len(p.frac) - (Len(ds) - last)),
            CHOOSE i \in 0..Len(ds) :
              /\ i = 0 \/ SubSeq(ds, i, i) # "0"
              /\ \A j \in (i + 1)..Len(ds) : SubSeq(ds, j, j) = "0"),
      p.int \o p.frac)

\* float(s) for a str s
float(s) ==
  Let(LAMBDA b :
        LET signed == Len(b) > 0 /\ SubSeq(b, 1, 1) \in {"+", "-"}
            neg == signed /\ SubSeq(b, 1, 1) = "-"
            word == IF signed THEN SubSeq(b, 2, Len(b)) ELSE b
        IN IF IsWord(word, "inf") \/ IsWord(word, "infinity") THEN FloatInf(neg)
           ELSE IF IsWord(word, "nan") THEN FloatNaN
           ELSE Let(LAMBDA p : IF ~p.ok THEN Exc("ValueError")
                               ELSE FloatOfParts(p),
                    ParseNumber(b)),
      StripChars(TransformDecimalAndSpaceToASCII(s), Whitespace))

\* float(power_w.decode()) * 1000.0
FloatTimes1000(response) ==
  Let(LAMBDA s :
        IF s.t = "exc" THEN s
        ELSE Let(LAMBDA x : IF x.t = "exc" THEN x ELSE FloatTimes(x, 1000),
                 float(s.s)),
      decode(response))

\* b'%.5f' % (mW / 1000.0)
Fmt5(mW) == Format5f(IntOver(mW, 1000))

(* ------------------------------ the laser ----------------------------- *)

IsQuery(cmd) == SubSeq(cmd, Len(cmd), Len(cmd)) = "?"

\* What the laser answers to a query, by command.
DataFor(cmd) ==
  IF cmd = "SOURce:AM:STATe?" THEN {"ON", "OFF"}
  ELSE IF cmd = "SOURce:POWer:LIMit:LOW?" THEN {"0.001"}
  ELSE IF cmd = "SOURce:POWer:LIMit:HIGH?" THEN {"0.11"}
  ELSE IF cmd = "SOURce:POWer:LEVel?" THEN {"0.05"}
  ELSE IF cmd = "SOURce:POWer:LEVel:IMMediate:AMPLitude?" THEN {"0.05000"}
  ELSE IF cmd = "SYSTem:STATus?" THEN {"C8001000"}
  ELSE IF cmd = "SYSTem:FAULt?" THEN {"00000000"}
  ELSE {"1234.50"}

\* The status reports (target power, status and fault codes, operating
\* hours) are always answered; every other command may be refused.
Reports ==
  {"SOURce:POWer:LEVel:IMMediate:AMPLitude?", "SYSTem:STATus?",
   "SYSTem:FAULt?", "SYSTem:HOURs?"}

\* The lines the laser emits for one command: with handshaking on a query is
\* answered by a data line and a handshake line, or by an error line alone,
\* and a command by a handshake or an error line; with handshaking off a
\* query is answered by its data line, or not at all, and a command by
\* nothing.
LaserEmits(cmd, hs) ==
  IF hs
  THEN IF IsQuery(cmd)
       THEN {<<d, h>> : d \in DataFor(cmd), h \in {"OK", "ERR-100"}}
              \cup (IF cmd \in Reports THEN {} ELSE {<<"ERR-100">>})
       ELSE {<<"OK">>, <<"ERR-100">>}
  ELSE IF IsQuery(cmd)
       THEN {<<d>> : d \in DataFor(cmd)}
              \cup (IF cmd \in Reports THEN {} ELSE {<<>>})
       ELSE {<<>>}

(* --------------------------- driver methods --------------------------- *)
(* A frame is one activation of a driver method: op, the number of steps   *)
(* of its body already taken (stage), where it stands (pc), its argument,  *)
(* get_status's result list (acc), the command of its current exchange and *)
(* the line _readline has read so far.  A method body maps the frame and   *)
(* the value it is resumed with (the reply of its exchange, or what the    *)
(* method it called returned) to what it does next.                        *)

NewFrame(op, arg) ==
  [op |-> op, stage |-> 0, pc |-> "enter", arg |-> arg, acc |-> <<>>,
   cmd |-> "", response |-> ""]

Self == [max |-> _max_power, min |-> _min_power]

\* self._write(c); self._readline()
Xchg(f, c) ==
  [do |-> "xchg", self |-> Self,
   f |-> [f EXCEPT !.stage = @ + 1, !.pc = "write", !.cmd = c]]

\* self.<op>()
CallOp(f, op) ==
  [do |-> "call", self |-> Self, op |-> op,
   f |-> [f EXCEPT !.stage = @ + 1, !.pc = "wait"]]

\* return v; an exception leaves the frame the same way, as an Exc value
Return(v) == [do |-> "ret", self |-> Self, val |-> v]

StatusQueries ==
  << [cmd |-> "SOURce:AM:STATe?", msg |-> "Emission on?"],
     [cmd |-> "SOURce:POWer:LEVel:IMMediate:AMPLitude?", msg |-> "Target power:"],
     [cmd |-> "SOURce:POWer:LEVel?", msg |-> "Measured power:"],
     [cmd |-> "SYSTem:STATus?", msg |-> "Status code?"],
     [cmd |-> "SYSTem:FAULt?", msg |-> "Fault code?"],
     [cmd |-> "SYSTem:HOURs?", msg |-> "Head operating hours:"] >>

get_status(f, v) ==
  LET acc == IF f.stage = 0 THEN f.acc
             ELSE Append(f.acc, StatusQueries[f.stage].msg \o " " \o v.s)
  IN IF f.stage > 0 /\ decode(v.s).t = "exc" THEN Return(decode(v.s))
     ELSE IF f.stage < Len(StatusQueries)
     THEN Xchg([f EXCEPT !.acc = acc], StatusQueries[f.stage + 1].cmd)
     ELSE Return(List(acc))

EnableCommands ==
  << "SOURce:TEMPerature:APRobe ON", "SOURce:AM:STATe ON",
     "SOURce:AM:EXTernal DIGital" >>

\* get_is_on, were it to take every reply but OFF for on
get_is_on_notOff(f, v) ==
  IF f.stage = 0 THEN Xchg(f, "SOURce:AM:STATe?")
  ELSE IF decode(v.s).t = "exc" THEN Return(decode(v.s))
  ELSE Return(Bool(v.s # "OFF"))

get_is_on(f, v) ==
  IF f.stage = 0 THEN Xchg(f, "SOURce:AM:STATe?")
  ELSE IF decode(v.s).t = "exc" THEN Return(decode(v.s))
  ELSE Return(Bool(v.s = "ON"))

enable(f, v) ==
  IF 0 < f.stage /\ f.stage <= Len(EnableCommands) /\ decode(v.s).t = "exc"
  THEN Return(decode(v.s))
  ELSE IF f.stage < Len(EnableCommands) THEN Xchg(f, EnableCommands[f.stage + 1])
  ELSE IF f.stage = Len(EnableCommands) THEN CallOp(f, "get_is_on")
  ELSE IF f.stage = Len(EnableCommands) + 1
       THEN IF ~IsTrue(v) THEN CallOp(f, "get_status") ELSE Return(Bool(TRUE))
  ELSE Return(Bool(FALSE))

\* disable, were it to report success whatever the laser says
disable_alwaysTrue(f, v) ==
  IF f.stage = 0 THEN Xchg(f, "SOURce:AM:STATe OFF")
  ELSE IF f.stage = 1 THEN CallOp(f, "get_is_on")
  ELSE Return(Bool(TRUE))

disable(f, v) ==
  IF f.stage = 0 THEN Xchg(f, "SOURce:AM:STATe OFF")
  ELSE IF f.stage = 1 THEN CallOp(f, "get_is_on")
  ELSE IF f.stage = 2
       THEN IF IsTrue(v) THEN CallOp(f, "get_status") ELSE Return(Bool(TRUE))
  ELSE Return(Bool(FALSE))

_on_shutdown(f, v) ==
  IF f.stage = 0 THEN CallOp(f, "disable")
  ELSE IF f.stage = 1 THEN Xchg(f, "SOURce:TEMPerature:APRobe OFF")
  ELSE IF decode(v.s).t = "exc" THEN Return(decode(v.s))
  ELSE Return(None)

is_alive(f, v) ==
  IF f.stage = 0 THEN CallOp(f, "get_is_on") ELSE Return(v)

get_min_power_mw(f, v) ==
  IF f.stage = 0 THEN Xchg(f, "SOURce:POWer:LIMit:LOW?")
  ELSE Return(FloatTimes1000(v.s))

get_max_power_mw(f, v) ==
  IF f.stage = 0 THEN Xchg(f, "SOURce:POWer:LIMit:HIGH?")
  ELSE Return(FloatTimes1000(v.s))

_get_power_mw(f, v) ==
  IF f.stage = 0 THEN CallOp(f, "get_is_on")
  ELSE IF f.stage = 1
       THEN IF ~IsTrue(v) THEN Return(FloatZero(FALSE)) ELSE Xchg(f, "SOURce:POWer:LEVel?")
  ELSE Return(FloatTimes1000(v.s))

get_power_mw(f, v) ==
  IF f.stage = 0 THEN CallOp(f, "get_is_on")
  ELSE IF f.stage = 1
       THEN IF ~IsTrue(v) THEN Return(FloatZero(FALSE)) ELSE CallOp(f, "_get_power_mw")
  ELSE Return(v)

\* _set_power_mw, were it to keep the power asked for as the new maximum
_set_power_mw_storesMax(f, v) ==
  IF f.stage = 0
  THEN IF IntGreater(f.arg, _max_power) THEN Return(None)
       ELSE [Xchg(f, "SOURce:POWer:LEVel:IMMediate:AMPLitude " \o Fmt5(f.arg))
               EXCEPT !.self.max = IntOver(f.arg, 1)]
  ELSE IF decode(v.s).t = "exc" THEN Return(decode(v.s))
  ELSE Return(v)

_set_power_mw(f, v) ==
  IF f.stage = 0
  THEN IF IntGreater(f.arg, _max_power) THEN Return(None)
       ELSE Xchg(f, "SOURce:POWer:LEVel:IMMediate:AMPLitude " \o Fmt5(f.arg))
  ELSE IF decode(v.s).t = "exc" THEN Return(decode(v.s))
  ELSE Return(v)

Body(f, v) ==
  CASE f.op = "get_status" -> get_status(f, v)
    [] f.op = "enable" -> enable(f, v)
    [] f.op = "_on_shutdown" -> _on_shutdown(f, v)
    [] f.op = "disable" -> disable(f, v)
    [] f.op = "is_alive" -> is_alive(f, v)
    [] f.op = "get_is_on" -> get_is_on(f, v)
    [] f.op = "get_min_power_mw" -> get_min_power_mw(f, v)
    [] f.op = "get_max_power_mw" -> get_max_power_mw(f, v)
    [] f.op = "_get_power_mw" -> _get_power_mw(f, v)
    [] f.op = "get_power_mw" -> get_power_mw(f, v)
    [] f.op = "_set_power_mw" -> _set_power_mw(f, v)

\* The methods decorated with SerialDeviceMixIn.lock_comms.
Locked(op) == op \notin {"_on_shutdown", "get_power_mw"}

\* The operations a caller starts.
LaserOps ==
  {"enable", "disable", "get_status", "get_is_on", "is_alive",
   "get_min_power_mw", "get_max_power_mw", "get_power_mw", "_set_power_mw",
   "_on_shutdown"}

\* The powers, in mW, callers ask _set_power_mw for.
PowerArgs == {50, 200}

ArgsOf(op) == IF op = "_set_power_mw" THEN PowerArgs ELSE {0}

Top(t) == stack[t][Len(stack[t])]

Front(s) == SubSeq(s, 1, Len(s) - 1)

(* ------------------------- the serial connection ---------------------- *)

\* A line in the input buffer: its bytes, the thread whose command the
\* laser answered with it, and whether that thread has written another
\* command since.
LineOf(txt, t) == [txt |-> txt \o "\r\n", by |-> t, old |-> FALSE]

\* connection.write(command + b'\r\n'): the laser's answer lands in rx.
AfterWrite(buf, t, lines) ==
  [i \in 1..Len(buf) |->
     IF buf[i].by = t THEN [buf[i] EXCEPT !.old = TRUE] ELSE buf[i]]
  \o [i \in 1..Len(lines) |-> LineOf(lines[i], t)]

\* connection.readline(): the next line, or nothing when the timeout expires.
ReadlineBytes == IF rx = <<>> THEN "" ELSE Head(rx).txt

RxAfterReadline == IF rx = <<>> THEN rx ELSE Tail(rx)

\* _readline, were it to return every first line at once
NeedsHandshake_keepsHandshake(response) == FALSE

\* _readline: a response other than a handshake or an error is a real
\* response, and its handshake line is read after it.
NeedsHandshake(response) ==
  ~(response = "OK" \/ Prefix3(response) = "ERR")

\* Bookkeeping of the exchange: how many of its own lines the reader has
\* consumed, and whether it consumed a line emitted for another command.
XchRead(x, t) ==
  IF rx = <<>> THEN x
  ELSE IF Head(rx).by = t /\ ~Head(rx).old THEN [x EXCEPT !.own = @ + 1]
  ELSE [x EXCEPT !.foreign = TRUE]

NoXch ==
  [cmd |-> "", emitted |-> <<>>, own |-> 0, foreign |-> FALSE, reply |-> "",
   done |-> FALSE]

(* ------------------------------- actions ------------------------------ *)

ReplaceTop(s, f) == [s EXCEPT ![Len(s)] = f]

\* The top frame of s, the stack of thread t, with the comms lock held by
\* `owner` `count` times, does what its body says next: start an exchange,
\* call a method, or return (leaving the `with self._comms_lock` block when
\* the method is a locked one).
Apply(t, s, o, owner, count) ==
  /\ _max_power' = o.self.max
  /\ _min_power' = o.self.min
  /\ IF o.do = "xchg"
     THEN /\ stack' = [stack EXCEPT ![t] = ReplaceTop(s, o.f)]
          /\ ret' = [ret EXCEPT ![t] = None]
          /\ lockOwner' = owner /\ lockCount' = count
          /\ result' = [result EXCEPT ![t] = None]
     ELSE IF o.do = "call"
     THEN /\ stack' = [stack EXCEPT
                         ![t] = Append(ReplaceTop(s, o.f), NewFrame(o.op, 0))]
          /\ ret' = [ret EXCEPT ![t] = None]
          /\ lockOwner' = owner /\ lockCount' = count
          /\ result' = [result EXCEPT ![t] = None]
     ELSE /\ stack' = [stack EXCEPT
                         ![t] = IF Len(s) = 1 THEN <<>>
                                ELSE ReplaceTop(Front(s),
                                       [s[Len(s) - 1] EXCEPT !.pc = "resume"])]
          /\ ret' = [ret EXCEPT ![t] = IF Len(s) = 1 THEN None ELSE o.val]
          /\ result' = [result EXCEPT ![t] = IF Len(s) = 1 THEN o.val ELSE None]
          /\ IF Locked(s[Len(s)].op)
             THEN /\ lockCount' = count - 1
                  /\ lockOwner' = IF count = 1 THEN 0 ELSE owner
             ELSE /\ lockOwner' = owner /\ lockCount' = count

\* Entering a method: a lock_comms method first takes the device's
\* re-entrant comms lock, which it can when no other thread holds it.
CanEnter(t, op) == Locked(op) => lockOwner \in {0, t}

Entered(t, s) ==
  LET f == s[Len(s)]
  IN \E o \in {Body(f, None)} :
       IF Locked(f.op)
       THEN Apply(t, s, o, t, lockCount + 1)
       ELSE Apply(t, s, o, lockOwner, lockCount)

\* A caller starts an operation of the device (a caller that waits for the
\* comms lock has not started yet).
Call(t) ==
  /\ t \in active
  /\ stack[t] = <<>>
  /\ quota > 0
  /\ \E op \in LaserOps : \E arg \in ArgsOf(op) :
       /\ CanEnter(t, op)
       /\ lastcall' = [lastcall EXCEPT ![t] = [op |-> op, arg |-> arg]]
       /\ Entered(t, <<NewFrame(op, arg)>>)
  /\ log' = [log EXCEPT ![t] = <<>>]
  /\ quota' = quota - 1
  /\ UNCHANGED <<handshaking, active, isOnReply, rx, xch>>
  /\ UNCHANGED <<mirrorVars, libVars>>

\* A method called by another method is entered.
Enter(t) ==
  /\ stack[t] # <<>>
  /\ Top(t).pc = "enter"
  /\ CanEnter(t, Top(t).op)
  /\ Entered(t, stack[t])
  /\ UNCHANGED <<handshaking, active, lastcall, log, isOnReply, rx, xch, quota>>
  /\ UNCHANGED <<mirrorVars, libVars>>

\* self._write(cmd)
Write(t) ==
  /\ stack[t] # <<>>
  /\ Top(t).pc = "write"
  /\ \E lines \in LaserEmits(Top(t).cmd, handshaking) :
       /\ rx' = AfterWrite(rx, t, lines)
       /\ xch' = [xch EXCEPT ![t] = [NoXch EXCEPT !.cmd = Top(t).cmd,
                                                   !.emitted = lines]]
  /\ stack' = [stack EXCEPT ![t] = ReplaceTop(@, [Top(t) EXCEPT !.pc = "read1"])]
  /\ log' = [log EXCEPT ![t] = Append(@, Top(t).cmd)]
  /\ UNCHANGED <<_max_power, _min_power, handshaking, active, lockOwner,
                 lockCount, ret, result, lastcall, isOnReply, quota>>
  /\ UNCHANGED <<mirrorVars, libVars>>

\* _readline has returned `response` to frame f of thread t.
Deliver(t, f, response) ==
  /\ xch' = [xch EXCEPT ![t] = [XchRead(@, t) EXCEPT !.reply = response,
                                                      !.done = TRUE]]
  /\ log' = [log EXCEPT ![t] = Append(@, "<reply>")]
  /\ isOnReply' = [isOnReply EXCEPT
                     ![t] = IF f.op = "get_is_on" THEN response ELSE @]
  /\ \E o \in {Body(f, Str(response))} :
       Apply(t, stack[t], o, lockOwner, lockCount)

\* _readline, first line: a handshake or an error line is the response.
Read1(t) ==
  /\ stack[t] # <<>>
  /\ Top(t).pc = "read1"
  /\ rx' = RxAfterReadline
  /\ LET response == Strip(ReadlineBytes)
     IN IF NeedsHandshake(response)
        THEN /\ stack' = [stack EXCEPT
                            ![t] = ReplaceTop(@, [Top(t) EXCEPT
                                                    !.pc = "read2",
                                                    !.response = response])]
             /\ xch' = [xch EXCEPT ![t] = XchRead(@, t)]
             /\ UNCHANGED <<_max_power, _min_power, lockOwner, lockCount, ret,
                            result, log, isOnReply>>
        ELSE Deliver(t, Top(t), response)
  /\ UNCHANGED <<handshaking, active, lastcall, quota>>
  /\ UNCHANGED <<mirrorVars, libVars>>

\* _readline, second line: the handshake after a real response is read and
\* dropped (logged when it is an error); a timeout reads nothing.
Read2(t) ==
  /\ stack[t] # <<>>
  /\ Top(t).pc = "read2"
  /\ rx' = RxAfterReadline
  /\ Deliver(t, Top(t), Top(t).response)
  /\ UNCHANGED <<handshaking, active, lastcall, quota>>
  /\ UNCHANGED <<mirrorVars, libVars>>

\* The called method has returned: the caller goes on with its value, or,
\* when it raised, the exception leaves the caller as well.
Resume(t) ==
  /\ stack[t] # <<>>
  /\ Top(t).pc = "resume"
  /\ \E o \in {IF ret[t].t = "exc" THEN Return(ret[t])
                ELSE Body(Top(t), ret[t])} :
       Apply(t, stack[t], o, lockOwner, lockCount)
  /\ UNCHANGED <<handshaking, active, lastcall, log, isOnReply, rx, xch, quota>>
  /\ UNCHANGED <<mirrorVars, libVars>>

\* The constructor's replies to SYSTem:INFormation:POWer? and
\* SOURce:POWer:LIMit:LOW?.
MaxPowerReplies == {"0.11"}
MinPowerReplies == {"0.001"}

InitLaser ==
  /\ \E r \in MaxPowerReplies : _max_power = FloatTimes1000(r)
  /\ \E r \in MinPowerReplies : _min_power = FloatTimes1000(r)
  /\ handshaking \in BOOLEAN
  /\ lockOwner = 0
  /\ lockCount = 0
  /\ stack = [t \in Threads |-> <<>>]
  /\ ret = [t \in Threads |-> None]
  /\ result = [t \in Threads |-> None]
  /\ lastcall = [t \in Threads |-> [op |-> "", arg |-> 0]]
  /\ log = [t \in Threads |-> <<>>]
  /\ isOnReply = [t \in Threads |-> ""]
  /\ rx = <<>>
  /\ xch = [t \in Threads |-> NoXch]
  
(* ------------------------- deformable mirrors ------------------------- *)
(* Neither mirror driver gets as far as a call into its vendor SDK.        *)
(* alpao.py does not compile: the asdkSendPattern call of queue_patterns   *)
(* lacks the comma between two of its arguments, so importing the module   *)
(* raises SyntaxError and there is no AlpaoDeformableMirror class to       *)
(* construct.  bmc.py leaves the import of its SDK wrapper commented out,  *)
(* so the constructor of BMCDeformableMirror raises NameError at its first *)
(* use of the name BMC and no BMC mirror is ever constructed.              *)

\* import microscope.mirror.alpao
Alpao_import == Exc("SyntaxError")

\* BMCDeformableMirror(serial_number): self._dm = BMC.DM()
BMC_init == Exc("NameError")

\* The caller is between two device operations and may start another.
CallerIdle == quota > 0 /\ \A t \in active : stack[t] = <<>>

Ran(dev, op, out) == mlast' = [dev |-> dev, op |-> op, exc |-> out.e]

AlpaoImport ==
  /\ CallerIdle
  /\ Ran("alpao", "import", Alpao_import)
  /\ quota' = quota - 1
  /\ UNCHANGED <<_max_power, _min_power, handshaking, active, lockOwner,
                 lockCount, stack, ret, result, lastcall, log, isOnReply, rx,
                 xch>>
  /\ UNCHANGED libVars

BMCNew ==
  /\ CallerIdle
  /\ Ran("bmc", "__init__", BMC_init)
  /\ quota' = quota - 1
  /\ UNCHANGED <<_max_power, _min_power, handshaking, active, lockOwner,
                 lockCount, stack, ret, result, lastcall, log, isOnReply, rx,
                 xch>>
  /\ UNCHANGED libVars

NoMirrorOp == [dev |-> "", op |-> "", exc |-> ""]

InitMirrors == mlast = NoMirrorOp

(* ----------------------- mock shared libraries ------------------------ *)

Range(q) == {q[i] : i \in 1..Len(q)}

MockLibasdk ==
  [libs |-> << "libasdk.so", "ASDK" >>,
   functions |-> <<
     "asdkGet", "asdkGetLastError", "asdkInit", "asdkRelease", "asdkSend",
     "asdkSendPattern", "asdkSet" >>]

MockLibatcore ==
  [libs |-> << "atcore.so", "atcore" >>,
   functions |-> <<
     "AT_Close", "AT_Command", "AT_FinaliseLibrary", "AT_Flush",
     "AT_GetBool", "AT_GetEnumCount", "AT_GetEnumIndex",
     "AT_GetEnumStringByIndex", "AT_GetEnumerated", "AT_GetEnumeratedCount",
     "AT_GetEnumeratedString", "AT_GetFloat", "AT_GetFloatMax",
     "AT_GetFloatMin", "AT_GetInt", "AT_GetIntMax", "AT_GetIntMin",
     "AT_GetString", "AT_GetStringMaxLength", "AT_InitialiseLibrary",
     "AT_IsEnumIndexAvailable", "AT_IsEnumIndexImplemented",
     "AT_IsEnumeratedIndexAvailable", "AT_IsEnumeratedIndexImplemented",
     "AT_IsImplemented", "AT_IsReadOnly", "AT_IsReadable", "AT_IsWritable",
     "AT_Open", "AT_QueueBuffer", "AT_RegisterFeatureCallback", "AT_SetBool",
     "AT_SetEnumIndex", "AT_SetEnumString", "AT_SetEnumerated",
     "AT_SetEnumeratedString", "AT_SetFloat", "AT_SetInt", "AT_SetString",
     "AT_UnregisterFeatureCallback", "AT_WaitBuffer" >>]

MockLibatutility ==
  [libs |-> << "atutility.so", "atutility" >>,
   functions |-> <<
     "AT_ConvertBuffer", "AT_ConvertBufferUsingMetadata",
     "AT_FinaliseUtilityLibrary", "AT_InitialiseUtilityLibrary" >>]

MockLibBMC ==
  [libs |-> << "libBMC.so.3", "BMC" >>,
   functions |-> <<
     "BMCClose", "BMCConfigureLog", "BMCErrorString", "BMCGetArray",
     "BMCOpen", "BMCSetArray", "BMCVersionString" >>]

MockLibpvcam ==
  [libs |-> << "pvcam.so", "pvcam32", "pvcam64" >>,
   functions |-> <<
     "pl_cam_close", "pl_cam_deregister_callback", "pl_cam_get_name",
     "pl_cam_get_total", "pl_cam_open", "pl_cam_register_callback",
     "pl_cam_register_callback_ex", "pl_cam_register_callback_ex2",
     "pl_cam_register_callback_ex3", "pl_create_frame_info_struct",
     "pl_create_smart_stream_struct", "pl_enum_str_length", "pl_exp_abort",
     "pl_exp_abort", "pl_exp_check_cont_status",
     "pl_exp_check_cont_status_ex", "pl_exp_check_status",
     "pl_exp_finish_seq", "pl_exp_get_latest_frame",
     "pl_exp_get_latest_frame_ex", "pl_exp_get_oldest_frame",
     "pl_exp_get_oldest_frame_ex", "pl_exp_setup_cont", "pl_exp_setup_seq",
     "pl_exp_start_cont", "pl_exp_start_seq", "pl_exp_stop_cont",
     "pl_exp_unlock_oldest_frame", "pl_get_enum_param", "pl_get_param",
     "pl_pp_reset", "pl_pvcam_get_ver", "pl_pvcam_init", "pl_pvcam_uninit",
     "pl_release_frame_info_struct", "pl_release_smart_stream_struct",
     "pl_set_param" >>]

\* MockSharedLib itself: it mocks no library and no function
MockSharedLib == [libs |-> <<>>, functions |-> <<>>]

MockClass(cls) ==
  CASE cls = "MockLibBMC" -> MockLibBMC
    [] cls = "MockLibasdk" -> MockLibasdk
    [] cls = "MockLibatcore" -> MockLibatcore
    [] cls = "MockLibatutility" -> MockLibatutility
    [] cls = "MockLibpvcam" -> MockLibpvcam
    [] cls = "MockSharedLib" -> MockSharedLib

\* The subclasses of MockSharedLib among the module's classes, in the order
\* inspect.getmembers gives them (by name).
MockClasses ==
  << "MockLibBMC", "MockLibasdk", "MockLibatcore", "MockLibatutility",
     "MockLibpvcam", "MockSharedLib" >>

\* _lib_to_mock.get(name): the loop assigns _lib_to_mock[_lib] = _cls class
\* by class, so the last class listing the name stays; "None" when none does.
_lib_to_mock(name) ==
  LET listing == {i \in 1..Len(MockClasses) :
                    name \in Range(MockClass(MockClasses[i]).libs)}
  IN IF listing = {} THEN "None"
     ELSE MockClasses[CHOOSE i \in listing : \A j \in listing : j <= i]

\* MockFuncPtr()
MockFuncPtr == [kind |-> "MockFuncPtr", argtypes |-> "None", restype |-> "None"]

AttributeError == [kind |-> "AttributeError"]

\* MockSharedLib.__getattr__, were it to mock any name
MockSharedLib_getattr_anyName(cls, name) == MockFuncPtr

\* MockSharedLib.__getattr__(name), for an instance of class cls
MockSharedLib_getattr(cls, name) ==
  IF name \in Range(MockClass(cls).functions) THEN MockFuncPtr
  ELSE AttributeError

\* A value ordinary attribute lookup finds, by the name of its type.
Found(k) == [kind |-> k]

\* The attributes every object has: those of the class object, which
\* MockSharedLib and, through ctypes.CDLL, CDLL derive from.
ObjectAttrs ==
  [n \in {"__delattr__", "__eq__", "__ge__", "__getattribute__", "__gt__",
          "__hash__", "__init__", "__le__", "__lt__", "__ne__", "__repr__",
          "__setattr__", "__str__"} |-> Found("method-wrapper")]
  @@ [n \in {"__dir__", "__format__", "__getstate__", "__init_subclass__",
             "__new__", "__reduce__", "__reduce_ex__", "__sizeof__",
             "__subclasshook__"} |-> Found("builtin_function_or_method")]
  @@ ("__class__" :> Found("type"))

\* What a class statement with a docstring adds to them.
ClassAttrs ==
  ("__dict__" :> Found("dict")) @@ ("__weakref__" :> Found("None"))
  @@ ("__module__" :> Found("str")) @@ ("__doc__" :> Found("str"))

\* The attributes ordinary lookup finds on an instance of mock class cls.
MockAttrs(cls) ==
  ("libs" :> [kind |-> "list", val |-> MockClass(cls).libs])
  @@ ("functions" :> [kind |-> "list", val |-> MockClass(cls).functions])
  @@ ("__getattr__" :> Found("method"))
  @@ ClassAttrs @@ ObjectAttrs

\* getattr(handle, name) on a mock instance: Python calls __getattr__ only
\* for the names ordinary lookup does not find.
Mock_getattr(cls, name) ==
  IF name \in DOMAIN MockAttrs(cls) THEN MockAttrs(cls)[name]
  ELSE MockSharedLib_getattr(cls, name)

\* The symbols ctypes finds in the C library libc.so.6 (glibc 2.36, with the
\* dynamic loader it depends on).
RealSymbols ==
  {
   "_Exit", "_Fork", "_IO_2_1_stderr_", "_IO_2_1_stdin_", "_IO_2_1_stdout_",
   "_IO_adjust_column", "_IO_adjust_wcolumn", "_IO_default_doallocate",
   "_IO_default_finish", "_IO_default_pbackfail", "_IO_default_uflow",
   "_IO_default_xsgetn", "_IO_default_xsputn", "_IO_do_write",
   "_IO_doallocbuf", "_IO_enable_locks", "_IO_fclose", "_IO_fdopen",
   "_IO_feof", "_IO_ferror", "_IO_fflush", "_IO_fgetpos", "_IO_fgetpos64",
   "_IO_fgets", "_IO_file_attach", "_IO_file_close", "_IO_file_close_it",
   "_IO_file_doallocate", "_IO_file_finish", "_IO_file_fopen",
   "_IO_file_init", "_IO_file_jumps", "_IO_file_open", "_IO_file_overflow",
   "_IO_file_read", "_IO_file_seek", "_IO_file_seekoff", "_IO_file_setbuf",
   "_IO_file_stat", "_IO_file_sync", "_IO_file_underflow", "_IO_file_write",
   "_IO_file_xsputn", "_IO_flockfile", "_IO_flush_all",
   "_IO_flush_all_linebuffered", "_IO_fopen", "_IO_fprintf", "_IO_fputs",
   "_IO_fread", "_IO_free_backup_area", "_IO_free_wbackup_area",
   "_IO_fsetpos", "_IO_fsetpos64", "_IO_ftell", "_IO_ftrylockfile",
   "_IO_funlockfile", "_IO_fwrite", "_IO_getc", "_IO_getline",
   "_IO_getline_info", "_IO_gets", "_IO_init", "_IO_init_marker",
   "_IO_init_wmarker", "_IO_iter_begin", "_IO_iter_end", "_IO_iter_file",
   "_IO_iter_next", "_IO_least_wmarker", "_IO_link_in", "_IO_list_all",
   "_IO_list_lock", "_IO_list_resetlock", "_IO_list_unlock",
   "_IO_marker_delta", "_IO_marker_difference", "_IO_padn",
   "_IO_peekc_locked", "_IO_popen", "_IO_printf", "_IO_proc_close",
   "_IO_proc_open", "_IO_putc", "_IO_puts", "_IO_remove_marker",
   "_IO_seekmark", "_IO_seekoff", "_IO_seekpos", "_IO_seekwmark", "_IO_setb",
   "_IO_setbuffer", "_IO_setvbuf", "_IO_sgetn", "_IO_sprintf",
   "_IO_sputbackc", "_IO_sputbackwc", "_IO_sscanf", "_IO_str_init_readonly",
   "_IO_str_init_static", "_IO_str_overflow", "_IO_str_pbackfail",
   "_IO_str_seekoff", "_IO_str_underflow", "_IO_sungetc", "_IO_sungetwc",
   "_IO_switch_to_get_mode", "_IO_switch_to_main_wget_area",
   "_IO_switch_to_wbackup_area", "_IO_switch_to_wget_mode", "_IO_un_link",
   "_IO_ungetc", "_IO_unsave_markers", "_IO_unsave_wmarkers", "_IO_vfprintf",
   "_IO_vsprintf", "_IO_wdefault_doallocate", "_IO_wdefault_finish",
   "_IO_wdefault_pbackfail", "_IO_wdefault_uflow", "_IO_wdefault_xsgetn",
   "_IO_wdefault_xsputn", "_IO_wdo_write", "_IO_wdoallocbuf",
   "_IO_wfile_jumps", "_IO_wfile_overflow", "_IO_wfile_seekoff",
   "_IO_wfile_sync", "_IO_wfile_underflow", "_IO_wfile_xsputn",
   "_IO_wmarker_delta", "_IO_wsetb", "__abort_msg", "__adjtimex",
   "__arch_prctl", "__argz_count", "__argz_next", "__argz_stringify",
   "__asprintf", "__asprintf_chk", "__assert", "__assert_fail",
   "__assert_perror_fail", "__backtrace", "__backtrace_symbols",
   "__backtrace_symbols_fd", "__bsd_getpgrp", "__bzero", "__call_tls_dtors",
   "__check_rhosts_file", "__chk_fail", "__clock_gettime", "__clone",
   "__close", "__close_nocancel", "__cmsg_nxthdr", "__confstr_chk",
   "__connect", "__copy_grp", "__ctype_b_loc", "__ctype_get_mb_cur_max",
   "__ctype_init", "__ctype_tolower_loc", "__ctype_toupper_loc", "__curbrk",
   "__cxa_at_quick_exit", "__cxa_atexit", "__cxa_finalize",
   "__cxa_thread_atexit_impl", "__cyg_profile_func_enter",
   "__cyg_profile_func_exit", "__daylight", "__dcgettext", "__dgettext",
   "__dprintf_chk", "__dup2", "__duplocale", "__endmntent", "__environ",
   "__errno_location", "__explicit_bzero_chk", "__fbufsize", "__fcntl",
   "__fdelt_chk", "__fdelt_warn", "__ffs", "__fgets_chk",
   "__fgets_unlocked_chk", "__fgetws_chk", "__fgetws_unlocked_chk",
   "__file_change_detection_for_fp", "__file_change_detection_for_path",
   "__file_change_detection_for_stat", "__file_is_unchanged", "__finite",
   "__finitef", "__finitel", "__flbf", "__fork", "__fortify_fail",
   "__fpending", "__fprintf_chk", "__fpu_control", "__fpurge", "__fread_chk",
   "__fread_unlocked_chk", "__freadable", "__freading", "__freelocale",
   "__fseeko64", "__fsetlocking", "__fstat64", "__ftello64",
   "__fwprintf_chk", "__fwritable", "__fwriting", "__fxstat", "__fxstat64",
   "__fxstatat", "__fxstatat64", "__gconv_create_spec",
   "__gconv_destroy_spec", "__gconv_get_alias_db", "__gconv_get_cache",
   "__gconv_get_modules_db", "__gconv_open", "__gconv_transliterate",
   "__getauxval", "__getcwd_chk", "__getdelim", "__getdomainname_chk",
   "__getgroups_chk", "__gethostname_chk", "__getlogin_r_chk",
   "__getmntent_r", "__getpagesize", "__getpgid", "__getpid", "__getrlimit",
   "__gets_chk", "__gettimeofday", "__getwd_chk", "__gmtime_r", "__h_errno",
   "__h_errno_location", "__idna_from_dns_encoding",
   "__idna_to_dns_encoding", "__inet6_scopeid_pton", "__inet_aton_exact",
   "__inet_pton_length", "__internal_endnetgrent",
   "__internal_getnetgrent_r", "__internal_setnetgrent", "__isalnum_l",
   "__isalpha_l", "__isascii_l", "__isblank_l", "__iscntrl_l", "__isctype",
   "__isdigit_l", "__isgraph_l", "__isinf", "__isinff", "__isinfl",
   "__islower_l", "__isnan", "__isnanf", "__isnanf128", "__isnanl",
   "__isoc99_fscanf", "__isoc99_fwscanf", "__isoc99_scanf",
   "__isoc99_sscanf", "__isoc99_swscanf", "__isoc99_vfscanf",
   "__isoc99_vfwscanf", "__isoc99_vscanf", "__isoc99_vsscanf",
   "__isoc99_vswscanf", "__isoc99_vwscanf", "__isoc99_wscanf", "__isprint_l",
   "__ispunct_l", "__isspace_l", "__isupper_l", "__iswalnum_l",
   "__iswalpha_l", "__iswblank_l", "__iswcntrl_l", "__iswctype",
   "__iswctype_l", "__iswdigit_l", "__iswgraph_l", "__iswlower_l",
   "__iswprint_l", "__iswpunct_l", "__iswspace_l", "__iswupper_l",
   "__iswxdigit_l", "__isxdigit_l", "__ivaliduser",
   "__libc_alloc_buffer_alloc_array", "__libc_alloc_buffer_allocate",
   "__libc_alloc_buffer_copy_bytes", "__libc_alloc_buffer_copy_string",
   "__libc_alloc_buffer_create_failure", "__libc_alloca_cutoff",
   "__libc_allocate_once_slow", "__libc_allocate_rtsig", "__libc_calloc",
   "__libc_current_sigrtmax", "__libc_current_sigrtmin",
   "__libc_dlerror_result", "__libc_dn_expand", "__libc_dn_skipname",
   "__libc_dynarray_at_failure", "__libc_dynarray_emplace_enlarge",
   "__libc_dynarray_finalize", "__libc_dynarray_resize",
   "__libc_dynarray_resize_clear", "__libc_early_init",
   "__libc_enable_secure", "__libc_fatal", "__libc_fcntl64", "__libc_fork",
   "__libc_free", "__libc_freeres", "__libc_ifunc_impl_list",
   "__libc_init_first", "__libc_mallinfo", "__libc_malloc", "__libc_mallopt",
   "__libc_memalign", "__libc_msgrcv", "__libc_msgsnd",
   "__libc_ns_makecanon", "__libc_ns_samename", "__libc_pread",
   "__libc_pvalloc", "__libc_pwrite", "__libc_realloc",
   "__libc_reallocarray", "__libc_res_dnok", "__libc_res_hnok",
   "__libc_res_nameinquery", "__libc_res_queriesmatch", "__libc_sa_len",
   "__libc_scratch_buffer_dupfree", "__libc_scratch_buffer_grow",
   "__libc_scratch_buffer_grow_preserve",
   "__libc_scratch_buffer_set_array_size", "__libc_secure_getenv",
   "__libc_sigaction", "__libc_single_threaded", "__libc_stack_end",
   "__libc_start_main", "__libc_system", "__libc_unwind_link_get",
   "__libc_valloc", "__lll_lock_wait_private", "__lll_lock_wake_private",
   "__longjmp_chk", "__lseek", "__lxstat", "__lxstat64", "__madvise",
   "__mbrlen", "__mbrtowc", "__mbsnrtowcs_chk", "__mbsrtowcs_chk",
   "__mbstowcs_chk", "__memcmpeq", "__memcpy_chk", "__memmove_chk",
   "__mempcpy", "__mempcpy_chk", "__memset_chk", "__merge_grp", "__mktemp",
   "__mmap", "__monstartup", "__mprotect", "__mq_open_2", "__munmap",
   "__nanosleep", "__netlink_assert_response", "__newlocale",
   "__nl_langinfo_l", "__nptl_change_stack_perm", "__nptl_create_event",
   "__nptl_death_event", "__nptl_initial_report_events", "__nptl_last_event",
   "__nptl_nthreads", "__nptl_rtld_global", "__nptl_threads_events",
   "__nptl_version", "__ns_name_compress", "__ns_name_ntop",
   "__ns_name_pack", "__ns_name_pton", "__ns_name_skip",
   "__ns_name_uncompress", "__ns_name_unpack", "__nss_configure_lookup",
   "__nss_database_get", "__nss_disable_nscd", "__nss_files_data_endent",
   "__nss_files_data_open", "__nss_files_data_put",
   "__nss_files_data_setent", "__nss_files_fopen", "__nss_group_lookup2",
   "__nss_hash", "__nss_hostname_digits_dots", "__nss_hosts_lookup2",
   "__nss_lookup", "__nss_lookup_function", "__nss_next2",
   "__nss_parse_line_result", "__nss_passwd_lookup2", "__nss_readline",
   "__nss_services_lookup2", "__obstack_printf_chk", "__obstack_vprintf_chk",
   "__open", "__open64", "__open64_2", "__open64_nocancel", "__open_2",
   "__open_catalog", "__open_nocancel", "__openat64_2", "__openat_2",
   "__overflow", "__pipe", "__poll", "__poll_chk", "__posix_getopt",
   "__ppoll_chk", "__pread64", "__pread64_chk", "__pread64_nocancel",
   "__pread_chk", "__printf_chk", "__printf_fp", "__profile_frequency",
   "__progname", "__progname_full", "__pthread_cleanup_routine",
   "__pthread_get_minstack", "__pthread_key_create", "__pthread_keys",
   "__pthread_register_cancel", "__pthread_register_cancel_defer",
   "__pthread_unregister_cancel", "__pthread_unregister_cancel_restore",
   "__pthread_unwind_next", "__ptsname_r_chk", "__pwrite64", "__rawmemchr",
   "__rcmd_errstr", "__read", "__read_chk", "__read_nocancel",
   "__readlink_chk", "__readlinkat_chk", "__realpath_chk", "__recv",
   "__recv_chk", "__recvfrom_chk", "__register_atfork",
   "__res_context_hostalias", "__res_context_mkquery", "__res_context_query",
   "__res_context_search", "__res_context_send", "__res_get_nsaddr",
   "__res_iclose", "__res_init", "__res_nclose", "__res_ninit", "__res_nopt",
   "__res_randomid", "__res_state", "__resolv_context_get",
   "__resolv_context_get_override", "__resolv_context_get_preinit",
   "__resolv_context_put", "__resp", "__rseq_flags", "__rseq_offset",
   "__rseq_size", "__sbrk", "__sched_cpualloc", "__sched_cpucount",
   "__sched_cpufree", "__sched_get_priority_max", "__sched_get_priority_min",
   "__sched_getparam", "__sched_getscheduler", "__sched_setscheduler",
   "__sched_yield", "__select", "__send", "__sendmmsg", "__setmntent",
   "__setpgid", "__shm_get_name", "__sigaction", "__signbit", "__signbitf",
   "__signbitl", "__sigpause", "__sigsetjmp", "__sigsuspend",
   "__sigtimedwait", "__snprintf", "__snprintf_chk", "__socket",
   "__sprintf_chk", "__stack_chk_fail", "__statfs", "__stpcpy",
   "__stpcpy_chk", "__stpncpy", "__stpncpy_chk", "__strcasecmp",
   "__strcasecmp_l", "__strcasestr", "__strcat_chk", "__strcoll_l",
   "__strcpy_chk", "__strdup", "__strerror_r", "__strfmon_l", "__strftime_l",
   "__strncasecmp_l", "__strncat_chk", "__strncpy_chk", "__strndup",
   "__strsep_g", "__strtod_internal", "__strtod_l", "__strtod_nan",
   "__strtof128_internal", "__strtof128_nan", "__strtof_internal",
   "__strtof_l", "__strtof_nan", "__strtok_r", "__strtol_internal",
   "__strtol_l", "__strtold_internal", "__strtold_l", "__strtold_nan",
   "__strtoll_internal", "__strtoll_l", "__strtoul_internal", "__strtoul_l",
   "__strtoull_internal", "__strtoull_l", "__strverscmp", "__strxfrm_l",
   "__swprintf_chk", "__sysconf", "__syslog_chk", "__sysv_signal",
   "__tdelete", "__tfind", "__timezone", "__tls_get_addr", "__toascii_l",
   "__tolower_l", "__toupper_l", "__towctrans", "__towctrans_l",
   "__towlower_l", "__towupper_l", "__tsearch", "__ttyname_r_chk",
   "__tunable_get_val", "__twalk", "__twalk_r", "__tzname", "__uflow",
   "__underflow", "__uselocale", "__vasprintf_chk", "__vdprintf_chk",
   "__vfork", "__vfprintf_chk", "__vfscanf", "__vfwprintf_chk",
   "__vprintf_chk", "__vsnprintf", "__vsnprintf_chk", "__vsprintf_chk",
   "__vsscanf", "__vswprintf_chk", "__vsyslog_chk", "__vwprintf_chk",
   "__wait", "__waitpid", "__wcpcpy_chk", "__wcpncpy_chk", "__wcrtomb_chk",
   "__wcscasecmp_l", "__wcscat_chk", "__wcscoll_l", "__wcscpy_chk",
   "__wcsftime_l", "__wcsncasecmp_l", "__wcsncat_chk", "__wcsncpy_chk",
   "__wcsnrtombs_chk", "__wcsrtombs_chk", "__wcstod_internal", "__wcstod_l",
   "__wcstof128_internal", "__wcstof_internal", "__wcstof_l",
   "__wcstol_internal", "__wcstol_l", "__wcstold_internal", "__wcstold_l",
   "__wcstoll_internal", "__wcstoll_l", "__wcstombs_chk",
   "__wcstoul_internal", "__wcstoul_l", "__wcstoull_internal",
   "__wcstoull_l", "__wcsxfrm_l", "__wctomb_chk", "__wctrans_l",
   "__wctype_l", "__wmemcpy_chk", "__wmemmove_chk", "__wmempcpy_chk",
   "__wmemset_chk", "__woverflow", "__wprintf_chk", "__write",
   "__write_nocancel", "__wuflow", "__wunderflow",
   "__x86_get_cpuid_feature_leaf", "__xmknod", "__xmknodat",
   "__xpg_basename", "__xpg_sigpause", "__xpg_strerror_r", "__xstat",
   "__xstat64", "_dl_allocate_tls", "_dl_allocate_tls_init", "_dl_argv",
   "_dl_audit_preinit", "_dl_audit_symbind_alt", "_dl_catch_error",
   "_dl_catch_exception", "_dl_deallocate_tls", "_dl_debug_state",
   "_dl_exception_create", "_dl_exception_create_format",
   "_dl_exception_free", "_dl_fatal_printf", "_dl_find_dso_for_object",
   "_dl_find_object", "_dl_get_tls_static_info", "_dl_mcount",
   "_dl_mcount_wrapper", "_dl_mcount_wrapper_check", "_dl_rtld_di_serinfo",
   "_dl_signal_error", "_dl_signal_exception", "_dl_x86_get_cpu_features",
   "_environ", "_exit", "_flushlbf", "_itoa_lower_digits",
   "_libc_intl_domainname", "_longjmp", "_mcleanup", "_mcount",
   "_nl_default_dirname", "_nl_domain_bindings", "_nl_msg_cat_cntr",
   "_nss_dns_getcanonname_r", "_nss_dns_gethostbyaddr2_r",
   "_nss_dns_gethostbyaddr_r", "_nss_dns_gethostbyname2_r",
   "_nss_dns_gethostbyname3_r", "_nss_dns_gethostbyname4_r",
   "_nss_dns_gethostbyname_r", "_nss_dns_getnetbyaddr_r",
   "_nss_dns_getnetbyname_r", "_nss_files_endaliasent",
   "_nss_files_endetherent", "_nss_files_endgrent", "_nss_files_endhostent",
   "_nss_files_endnetent", "_nss_files_endnetgrent",
   "_nss_files_endprotoent", "_nss_files_endpwent", "_nss_files_endrpcent",
   "_nss_files_endservent", "_nss_files_endsgent", "_nss_files_endspent",
   "_nss_files_getaliasbyname_r", "_nss_files_getaliasent_r",
   "_nss_files_getetherent_r", "_nss_files_getgrent_r",
   "_nss_files_getgrgid_r", "_nss_files_getgrnam_r",
   "_nss_files_gethostbyaddr_r", "_nss_files_gethostbyname2_r",
   "_nss_files_gethostbyname3_r", "_nss_files_gethostbyname4_r",
   "_nss_files_gethostbyname_r", "_nss_files_gethostent_r",
   "_nss_files_gethostton_r", "_nss_files_getnetbyaddr_r",
   "_nss_files_getnetbyname_r", "_nss_files_getnetent_r",
   "_nss_files_getnetgrent_r", "_nss_files_getntohost_r",
   "_nss_files_getprotobyname_r", "_nss_files_getprotobynumber_r",
   "_nss_files_getprotoent_r", "_nss_files_getpwent_r",
   "_nss_files_getpwnam_r", "_nss_files_getpwuid_r",
   "_nss_files_getrpcbyname_r", "_nss_files_getrpcbynumber_r",
   "_nss_files_getrpcent_r", "_nss_files_getservbyname_r",
   "_nss_files_getservbyport_r", "_nss_files_getservent_r",
   "_nss_files_getsgent_r", "_nss_files_getsgnam_r", "_nss_files_getspent_r",
   "_nss_files_getspnam_r", "_nss_files_init", "_nss_files_initgroups_dyn",
   "_nss_files_parse_etherent", "_nss_files_parse_grent",
   "_nss_files_parse_netent", "_nss_files_parse_protoent",
   "_nss_files_parse_pwent", "_nss_files_parse_rpcent",
   "_nss_files_parse_servent", "_nss_files_parse_sgent",
   "_nss_files_parse_spent", "_nss_files_setaliasent",
   "_nss_files_setetherent", "_nss_files_setgrent", "_nss_files_sethostent",
   "_nss_files_setnetent", "_nss_files_setnetgrent",
   "_nss_files_setprotoent", "_nss_files_setpwent", "_nss_files_setrpcent",
   "_nss_files_setservent", "_nss_files_setsgent", "_nss_files_setspent",
   "_nss_netgroup_parseline", "_obstack_allocated_p", "_obstack_begin",
   "_obstack_begin_1", "_obstack_free", "_obstack_memory_used",
   "_obstack_newchunk", "_pthread_cleanup_pop", "_pthread_cleanup_push",
   "_r_debug", "_res_hconf", "_rtld_global", "_rtld_global_ro", "_setjmp",
   "_thread_db___nptl_last_event", "_thread_db___nptl_nthreads",
   "_thread_db___nptl_rtld_global", "_thread_db___pthread_keys",
   "_thread_db_const_thread_area", "_thread_db_dtv_dtv",
   "_thread_db_dtv_slotinfo_gen", "_thread_db_dtv_slotinfo_list_len",
   "_thread_db_dtv_slotinfo_list_next",
   "_thread_db_dtv_slotinfo_list_slotinfo", "_thread_db_dtv_slotinfo_map",
   "_thread_db_dtv_t_counter", "_thread_db_dtv_t_pointer_val",
   "_thread_db_link_map_l_tls_modid", "_thread_db_link_map_l_tls_offset",
   "_thread_db_list_t_next", "_thread_db_list_t_prev",
   "_thread_db_pthread_cancelhandling", "_thread_db_pthread_dtvp",
   "_thread_db_pthread_eventbuf", "_thread_db_pthread_eventbuf_eventmask",
   "_thread_db_pthread_eventbuf_eventmask_event_bits",
   "_thread_db_pthread_key_data_data",
   "_thread_db_pthread_key_data_level2_data",
   "_thread_db_pthread_key_data_seq", "_thread_db_pthread_key_struct_destr",
   "_thread_db_pthread_key_struct_seq", "_thread_db_pthread_list",
   "_thread_db_pthread_nextevent", "_thread_db_pthread_report_events",
   "_thread_db_pthread_schedparam_sched_priority",
   "_thread_db_pthread_schedpolicy", "_thread_db_pthread_specific",
   "_thread_db_pthread_start_routine", "_thread_db_pthread_tid",
   "_thread_db_rtld_global__dl_stack_used",
   "_thread_db_rtld_global__dl_stack_user",
   "_thread_db_rtld_global__dl_tls_dtv_slotinfo_list",
   "_thread_db_sizeof_dtv_slotinfo", "_thread_db_sizeof_dtv_slotinfo_list",
   "_thread_db_sizeof_list_t", "_thread_db_sizeof_pthread",
   "_thread_db_sizeof_pthread_key_data",
   "_thread_db_sizeof_pthread_key_data_level2",
   "_thread_db_sizeof_pthread_key_struct", "_thread_db_sizeof_td_eventbuf_t",
   "_thread_db_sizeof_td_thr_events_t", "_thread_db_td_eventbuf_t_eventdata",
   "_thread_db_td_eventbuf_t_eventnum",
   "_thread_db_td_thr_events_t_event_bits", "_tolower", "_toupper", "a64l",
   "abort", "abs", "accept", "accept4", "access", "acct", "addmntent",
   "addseverity", "adjtime", "adjtimex", "aio_cancel", "aio_cancel64",
   "aio_error", "aio_error64", "aio_fsync", "aio_fsync64", "aio_init",
   "aio_read", "aio_read64", "aio_return", "aio_return64", "aio_suspend",
   "aio_suspend64", "aio_write", "aio_write64", "alarm", "aligned_alloc",
   "alphasort", "alphasort64", "arc4random", "arc4random_buf",
   "arc4random_uniform", "arch_prctl", "argp_err_exit_status", "argp_error",
   "argp_failure", "argp_help", "argp_parse", "argp_program_bug_address",
   "argp_program_version", "argp_program_version_hook", "argp_state_help",
   "argp_usage", "argz_add", "argz_add_sep", "argz_append", "argz_count",
   "argz_create", "argz_create_sep", "argz_delete", "argz_extract",
   "argz_insert", "argz_next", "argz_replace", "argz_stringify", "asctime",
   "asctime_r", "asprintf", "atof", "atoi", "atol", "atoll", "backtrace",
   "backtrace_symbols", "backtrace_symbols_fd", "basename", "bcmp", "bcopy",
   "bind", "bind_textdomain_codeset", "bindresvport", "bindtextdomain",
   "brk", "bsd_signal", "bsearch", "btowc", "bzero", "c16rtomb", "c32rtomb",
   "c8rtomb", "call_once", "calloc", "canonicalize_file_name", "capget",
   "capset", "catclose", "catgets", "catopen", "cfgetispeed", "cfgetospeed",
   "cfmakeraw", "cfsetispeed", "cfsetospeed", "cfsetspeed", "chdir",
   "chflags", "chmod", "chown", "chroot", "clearenv", "clearerr",
   "clearerr_unlocked", "clock", "clock_adjtime", "clock_getcpuclockid",
   "clock_getres", "clock_gettime", "clock_nanosleep", "clock_settime",
   "clone", "close", "close_range", "closedir", "closefrom", "closelog",
   "cnd_broadcast", "cnd_destroy", "cnd_init", "cnd_signal", "cnd_timedwait",
   "cnd_wait", "confstr", "connect", "copy_file_range", "copysign",
   "copysignf", "copysignl", "creat", "creat64", "ctermid", "ctime",
   "ctime_r", "cuserid", "daemon", "daylight", "dcgettext", "dcngettext",
   "delete_module", "dgettext", "difftime", "dirfd", "dirname", "div",
   "dl_iterate_phdr", "dladdr", "dladdr1", "dlclose", "dlerror", "dlinfo",
   "dlmopen", "dlopen", "dlsym", "dlvsym", "dn_comp", "dn_expand",
   "dn_skipname", "dngettext", "dprintf", "drand48", "drand48_r", "dup",
   "dup2", "dup3", "duplocale", "dysize", "eaccess", "ecvt", "ecvt_r",
   "endaliasent", "endfsent", "endgrent", "endhostent", "endmntent",
   "endnetent", "endnetgrent", "endprotoent", "endpwent", "endrpcent",
   "endservent", "endsgent", "endspent", "endttyent", "endusershell",
   "endutent", "endutxent", "environ", "envz_add", "envz_entry", "envz_get",
   "envz_merge", "envz_remove", "envz_strip", "epoll_create",
   "epoll_create1", "epoll_ctl", "epoll_pwait", "epoll_pwait2", "epoll_wait",
   "erand48", "erand48_r", "err", "errno", "error", "error_at_line",
   "error_message_count", "error_one_per_line", "error_print_progname",
   "errx", "ether_aton", "ether_aton_r", "ether_hostton", "ether_line",
   "ether_ntoa", "ether_ntoa_r", "ether_ntohost", "euidaccess", "eventfd",
   "eventfd_read", "eventfd_write", "execl", "execle", "execlp", "execv",
   "execve", "execveat", "execvp", "execvpe", "exit", "explicit_bzero",
   "faccessat", "fallocate", "fallocate64", "fanotify_init", "fanotify_mark",
   "fchdir", "fchflags", "fchmod", "fchmodat", "fchown", "fchownat",
   "fclose", "fcloseall", "fcntl", "fcntl64", "fcvt", "fcvt_r", "fdatasync",
   "fdopen", "fdopendir", "feof", "feof_unlocked", "ferror",
   "ferror_unlocked", "fexecve", "fflush", "fflush_unlocked", "ffs", "ffsl",
   "ffsll", "fgetc", "fgetc_unlocked", "fgetgrent", "fgetgrent_r", "fgetpos",
   "fgetpos64", "fgetpwent", "fgetpwent_r", "fgets", "fgets_unlocked",
   "fgetsgent", "fgetsgent_r", "fgetspent", "fgetspent_r", "fgetwc",
   "fgetwc_unlocked", "fgetws", "fgetws_unlocked", "fgetxattr", "fileno",
   "fileno_unlocked", "finite", "finitef", "finitel", "flistxattr", "flock",
   "flockfile", "fmemopen", "fmtmsg", "fnmatch", "fopen", "fopen64",
   "fopencookie", "fork", "forkpty", "fpathconf", "fprintf", "fputc",
   "fputc_unlocked", "fputs", "fputs_unlocked", "fputwc", "fputwc_unlocked",
   "fputws", "fputws_unlocked", "fread", "fread_unlocked", "free",
   "freeaddrinfo", "freeifaddrs", "freelocale", "fremovexattr", "freopen",
   "freopen64", "frexp", "frexpf", "frexpl", "fscanf", "fsconfig", "fseek",
   "fseeko", "fseeko64", "fsetpos", "fsetpos64", "fsetxattr", "fsmount",
   "fsopen", "fspick", "fstat", "fstat64", "fstatat", "fstatat64", "fstatfs",
   "fstatfs64", "fstatvfs", "fstatvfs64", "fsync", "ftell", "ftello",
   "ftello64", "ftime", "ftok", "ftruncate", "ftruncate64", "ftrylockfile",
   "fts64_children", "fts64_close", "fts64_open", "fts64_read", "fts64_set",
   "fts_children", "fts_close", "fts_open", "fts_read", "fts_set", "ftw",
   "ftw64", "funlockfile", "futimens", "futimes", "futimesat", "fwide",
   "fwprintf", "fwrite", "fwrite_unlocked", "fwscanf", "gai_cancel",
   "gai_error", "gai_strerror", "gai_suspend", "gcvt", "get_avphys_pages",
   "get_current_dir_name", "get_nprocs", "get_nprocs_conf", "get_phys_pages",
   "getaddrinfo", "getaddrinfo_a", "getaliasbyname", "getaliasbyname_r",
   "getaliasent", "getaliasent_r", "getauxval", "getc", "getc_unlocked",
   "getchar", "getchar_unlocked", "getcontext", "getcpu", "getcwd",
   "getdate", "getdate_err", "getdate_r", "getdelim", "getdents64",
   "getdirentries", "getdirentries64", "getdomainname", "getdtablesize",
   "getegid", "getentropy", "getenv", "geteuid", "getfsent", "getfsfile",
   "getfsspec", "getgid", "getgrent", "getgrent_r", "getgrgid", "getgrgid_r",
   "getgrnam", "getgrnam_r", "getgrouplist", "getgroups", "gethostbyaddr",
   "gethostbyaddr_r", "gethostbyname", "gethostbyname2", "gethostbyname2_r",
   "gethostbyname_r", "gethostent", "gethostent_r", "gethostid",
   "gethostname", "getifaddrs", "getipv4sourcefilter", "getitimer",
   "getline", "getloadavg", "getlogin", "getlogin_r", "getmntent",
   "getmntent_r", "getnameinfo", "getnetbyaddr", "getnetbyaddr_r",
   "getnetbyname", "getnetbyname_r", "getnetent", "getnetent_r",
   "getnetgrent", "getnetgrent_r", "getopt", "getopt_long",
   "getopt_long_only", "getpagesize", "getpass", "getpeername", "getpgid",
   "getpgrp", "getpid", "getppid", "getpriority", "getprotobyname",
   "getprotobyname_r", "getprotobynumber", "getprotobynumber_r",
   "getprotoent", "getprotoent_r", "getpt", "getpw", "getpwent",
   "getpwent_r", "getpwnam", "getpwnam_r", "getpwuid", "getpwuid_r",
   "getrandom", "getresgid", "getresuid", "getrlimit", "getrlimit64",
   "getrpcbyname", "getrpcbyname_r", "getrpcbynumber", "getrpcbynumber_r",
   "getrpcent", "getrpcent_r", "getrusage", "gets", "getservbyname",
   "getservbyname_r", "getservbyport", "getservbyport_r", "getservent",
   "getservent_r", "getsgent", "getsgent_r", "getsgnam", "getsgnam_r",
   "getsid", "getsockname", "getsockopt", "getsourcefilter", "getspent",
   "getspent_r", "getspnam", "getspnam_r", "getsubopt", "gettext", "gettid",
   "gettimeofday", "getttyent", "getttynam", "getuid", "getusershell",
   "getutent", "getutent_r", "getutid", "getutid_r", "getutline",
   "getutline_r", "getutmp", "getutmpx", "getutxent", "getutxid",
   "getutxline", "getw", "getwc", "getwc_unlocked", "getwchar",
   "getwchar_unlocked", "getwd", "getxattr", "glob", "glob64",
   "glob_pattern_p", "globfree", "globfree64", "gmtime", "gmtime_r",
   "gnu_dev_major", "gnu_dev_makedev", "gnu_dev_minor",
   "gnu_get_libc_release", "gnu_get_libc_version", "grantpt", "group_member",
   "gsignal", "gtty", "h_errlist", "h_nerr", "hasmntopt", "hcreate",
   "hcreate_r", "hdestroy", "hdestroy_r", "herror", "hsearch", "hsearch_r",
   "hstrerror", "htonl", "htons", "iconv", "iconv_close", "iconv_open",
   "if_freenameindex", "if_indextoname", "if_nameindex", "if_nametoindex",
   "imaxabs", "imaxdiv", "in6addr_any", "in6addr_loopback", "index",
   "inet6_opt_append", "inet6_opt_find", "inet6_opt_finish",
   "inet6_opt_get_val", "inet6_opt_init", "inet6_opt_next",
   "inet6_opt_set_val", "inet6_option_alloc", "inet6_option_append",
   "inet6_option_find", "inet6_option_init", "inet6_option_next",
   "inet6_option_space", "inet6_rth_add", "inet6_rth_getaddr",
   "inet6_rth_init", "inet6_rth_reverse", "inet6_rth_segments",
   "inet6_rth_space", "inet_addr", "inet_aton", "inet_lnaof",
   "inet_makeaddr", "inet_netof", "inet_network", "inet_nsap_addr",
   "inet_nsap_ntoa", "inet_ntoa", "inet_ntop", "inet_pton", "init_module",
   "initgroups", "initstate", "initstate_r", "innetgr", "inotify_add_watch",
   "inotify_init", "inotify_init1", "inotify_rm_watch", "insque", "ioctl",
   "ioperm", "iopl", "iruserok", "iruserok_af", "isalnum", "isalnum_l",
   "isalpha", "isalpha_l", "isascii", "isatty", "isblank", "isblank_l",
   "iscntrl", "iscntrl_l", "isctype", "isdigit", "isdigit_l", "isfdtype",
   "isgraph", "isgraph_l", "isinf", "isinff", "isinfl", "islower",
   "islower_l", "isnan", "isnanf", "isnanl", "isprint", "isprint_l",
   "ispunct", "ispunct_l", "isspace", "isspace_l", "isupper", "isupper_l",
   "iswalnum", "iswalnum_l", "iswalpha", "iswalpha_l", "iswblank",
   "iswblank_l", "iswcntrl", "iswcntrl_l", "iswctype", "iswctype_l",
   "iswdigit", "iswdigit_l", "iswgraph", "iswgraph_l", "iswlower",
   "iswlower_l", "iswprint", "iswprint_l", "iswpunct", "iswpunct_l",
   "iswspace", "iswspace_l", "iswupper", "iswupper_l", "iswxdigit",
   "iswxdigit_l", "isxdigit", "isxdigit_l", "jrand48", "jrand48_r", "kill",
   "killpg", "klogctl", "l64a", "labs", "lchmod", "lchown", "lckpwdf",
   "lcong48", "lcong48_r", "ldexp", "ldexpf", "ldexpl", "ldiv", "lfind",
   "lgetxattr", "link", "linkat", "lio_listio", "lio_listio64", "listen",
   "listxattr", "llabs", "lldiv", "llistxattr", "localeconv", "localtime",
   "localtime_r", "lockf", "lockf64", "login", "login_tty", "logout",
   "logwtmp", "longjmp", "lrand48", "lrand48_r", "lremovexattr", "lsearch",
   "lseek", "lseek64", "lsetxattr", "lstat", "lstat64", "lutimes", "madvise",
   "makecontext", "mallinfo", "mallinfo2", "malloc", "malloc_info",
   "malloc_stats", "malloc_trim", "malloc_usable_size", "mallopt", "mblen",
   "mbrlen", "mbrtoc16", "mbrtoc32", "mbrtoc8", "mbrtowc", "mbsinit",
   "mbsnrtowcs", "mbsrtowcs", "mbstowcs", "mbtowc", "mcheck",
   "mcheck_check_all", "mcheck_pedantic", "mcount", "memalign", "memccpy",
   "memchr", "memcmp", "memcpy", "memfd_create", "memfrob", "memmem",
   "memmove", "mempcpy", "memrchr", "memset", "mincore", "mkdir", "mkdirat",
   "mkdtemp", "mkfifo", "mkfifoat", "mknod", "mknodat", "mkostemp",
   "mkostemp64", "mkostemps", "mkostemps64", "mkstemp", "mkstemp64",
   "mkstemps", "mkstemps64", "mktemp", "mktime", "mlock", "mlock2",
   "mlockall", "mmap", "mmap64", "modf", "modff", "modfl", "modify_ldt",
   "moncontrol", "monstartup", "mount", "mount_setattr", "move_mount",
   "mprobe", "mprotect", "mq_close", "mq_getattr", "mq_notify", "mq_open",
   "mq_receive", "mq_send", "mq_setattr", "mq_timedreceive", "mq_timedsend",
   "mq_unlink", "mrand48", "mrand48_r", "mremap", "msgctl", "msgget",
   "msgrcv", "msgsnd", "msync", "mtrace", "mtx_destroy", "mtx_init",
   "mtx_lock", "mtx_timedlock", "mtx_trylock", "mtx_unlock", "munlock",
   "munlockall", "munmap", "muntrace", "name_to_handle_at", "nanosleep",
   "newlocale", "nftw", "nftw64", "ngettext", "nice", "nl_langinfo",
   "nl_langinfo_l", "nrand48", "nrand48_r", "ns_name_compress",
   "ns_name_ntop", "ns_name_pack", "ns_name_pton", "ns_name_skip",
   "ns_name_uncompress", "ns_name_unpack", "ntohl", "ntohs", "ntp_adjtime",
   "ntp_gettime", "ntp_gettimex", "obstack_alloc_failed_handler",
   "obstack_exit_failure", "obstack_free", "obstack_printf",
   "obstack_vprintf", "on_exit", "open", "open64", "open_by_handle_at",
   "open_memstream", "open_tree", "open_wmemstream", "openat", "openat64",
   "opendir", "openlog", "openpty", "optarg", "opterr", "optind", "optopt",
   "parse_printf_format", "pathconf", "pause", "pclose", "perror",
   "personality", "pidfd_getfd", "pidfd_open", "pidfd_send_signal", "pipe",
   "pipe2", "pivot_root", "pkey_alloc", "pkey_free", "pkey_get",
   "pkey_mprotect", "pkey_set", "poll", "popen", "posix_fadvise",
   "posix_fadvise64", "posix_fallocate", "posix_fallocate64",
   "posix_madvise", "posix_memalign", "posix_openpt", "posix_spawn",
   "posix_spawn_file_actions_addchdir_np",
   "posix_spawn_file_actions_addclose",
   "posix_spawn_file_actions_addclosefrom_np",
   "posix_spawn_file_actions_adddup2",
   "posix_spawn_file_actions_addfchdir_np",
   "posix_spawn_file_actions_addopen",
   "posix_spawn_file_actions_addtcsetpgrp_np",
   "posix_spawn_file_actions_destroy", "posix_spawn_file_actions_init",
   "posix_spawnattr_destroy", "posix_spawnattr_getflags",
   "posix_spawnattr_getpgroup", "posix_spawnattr_getschedparam",
   "posix_spawnattr_getschedpolicy", "posix_spawnattr_getsigdefault",
   "posix_spawnattr_getsigmask", "posix_spawnattr_init",
   "posix_spawnattr_setflags", "posix_spawnattr_setpgroup",
   "posix_spawnattr_setschedparam", "posix_spawnattr_setschedpolicy",
   "posix_spawnattr_setsigdefault", "posix_spawnattr_setsigmask",
   "posix_spawnp", "ppoll", "prctl", "pread", "pread64", "preadv", "preadv2",
   "preadv64", "preadv64v2", "printf", "printf_size", "printf_size_info",
   "prlimit", "prlimit64", "process_madvise", "process_mrelease",
   "process_vm_readv", "process_vm_writev", "profil",
   "program_invocation_name", "program_invocation_short_name", "pselect",
   "psiginfo", "psignal", "pthread_attr_destroy",
   "pthread_attr_getaffinity_np", "pthread_attr_getdetachstate",
   "pthread_attr_getguardsize", "pthread_attr_getinheritsched",
   "pthread_attr_getschedparam", "pthread_attr_getschedpolicy",
   "pthread_attr_getscope", "pthread_attr_getsigmask_np",
   "pthread_attr_getstack", "pthread_attr_getstackaddr",
   "pthread_attr_getstacksize", "pthread_attr_init",
   "pthread_attr_setaffinity_np", "pthread_attr_setdetachstate",
   "pthread_attr_setguardsize", "pthread_attr_setinheritsched",
   "pthread_attr_setschedparam", "pthread_attr_setschedpolicy",
   "pthread_attr_setscope", "pthread_attr_setsigmask_np",
   "pthread_attr_setstack", "pthread_attr_setstackaddr",
   "pthread_attr_setstacksize", "pthread_barrier_destroy",
   "pthread_barrier_init", "pthread_barrier_wait",
   "pthread_barrierattr_destroy", "pthread_barrierattr_getpshared",
   "pthread_barrierattr_init", "pthread_barrierattr_setpshared",
   "pthread_cancel", "pthread_clockjoin_np", "pthread_cond_broadcast",
   "pthread_cond_clockwait", "pthread_cond_destroy", "pthread_cond_init",
   "pthread_cond_signal", "pthread_cond_timedwait", "pthread_cond_wait",
   "pthread_condattr_destroy", "pthread_condattr_getclock",
   "pthread_condattr_getpshared", "pthread_condattr_init",
   "pthread_condattr_setclock", "pthread_condattr_setpshared",
   "pthread_create", "pthread_detach", "pthread_equal", "pthread_exit",
   "pthread_getaffinity_np", "pthread_getattr_default_np",
   "pthread_getattr_np", "pthread_getconcurrency", "pthread_getcpuclockid",
   "pthread_getname_np", "pthread_getschedparam", "pthread_getspecific",
   "pthread_join", "pthread_key_create", "pthread_key_delete",
   "pthread_kill", "pthread_mutex_clocklock", "pthread_mutex_consistent",
   "pthread_mutex_destroy", "pthread_mutex_getprioceiling",
   "pthread_mutex_init", "pthread_mutex_lock",
   "pthread_mutex_setprioceiling", "pthread_mutex_timedlock",
   "pthread_mutex_trylock", "pthread_mutex_unlock",
   "pthread_mutexattr_destroy", "pthread_mutexattr_getprioceiling",
   "pthread_mutexattr_getprotocol", "pthread_mutexattr_getpshared",
   "pthread_mutexattr_getrobust", "pthread_mutexattr_gettype",
   "pthread_mutexattr_init", "pthread_mutexattr_setprioceiling",
   "pthread_mutexattr_setprotocol", "pthread_mutexattr_setpshared",
   "pthread_mutexattr_setrobust", "pthread_mutexattr_settype",
   "pthread_once", "pthread_rwlock_clockrdlock",
   "pthread_rwlock_clockwrlock", "pthread_rwlock_destroy",
   "pthread_rwlock_init", "pthread_rwlock_rdlock",
   "pthread_rwlock_timedrdlock", "pthread_rwlock_timedwrlock",
   "pthread_rwlock_tryrdlock", "pthread_rwlock_trywrlock",
   "pthread_rwlock_unlock", "pthread_rwlock_wrlock",
   "pthread_rwlockattr_destroy", "pthread_rwlockattr_getkind_np",
   "pthread_rwlockattr_getpshared", "pthread_rwlockattr_init",
   "pthread_rwlockattr_setkind_np", "pthread_rwlockattr_setpshared",
   "pthread_self", "pthread_setaffinity_np", "pthread_setattr_default_np",
   "pthread_setcancelstate", "pthread_setcanceltype",
   "pthread_setconcurrency", "pthread_setname_np", "pthread_setschedparam",
   "pthread_setschedprio", "pthread_setspecific", "pthread_sigmask",
   "pthread_sigqueue", "pthread_spin_destroy", "pthread_spin_init",
   "pthread_spin_lock", "pthread_spin_trylock", "pthread_spin_unlock",
   "pthread_testcancel", "pthread_timedjoin_np", "pthread_tryjoin_np",
   "ptrace", "ptsname", "ptsname_r", "putc", "putc_unlocked", "putchar",
   "putchar_unlocked", "putenv", "putgrent", "putpwent", "puts", "putsgent",
   "putspent", "pututline", "pututxline", "putw", "putwc", "putwc_unlocked",
   "putwchar", "putwchar_unlocked", "pvalloc", "pwrite", "pwrite64",
   "pwritev", "pwritev2", "pwritev64", "pwritev64v2", "qecvt", "qecvt_r",
   "qfcvt", "qfcvt_r", "qgcvt", "qsort", "qsort_r", "quick_exit", "quotactl",
   "raise", "rand", "rand_r", "random", "random_r", "rawmemchr", "rcmd",
   "rcmd_af", "re_comp", "re_compile_fastmap", "re_compile_pattern",
   "re_exec", "re_match", "re_match_2", "re_max_failures", "re_search",
   "re_search_2", "re_set_registers", "re_set_syntax", "re_syntax_options",
   "read", "readahead", "readdir", "readdir64", "readdir64_r", "readdir_r",
   "readlink", "readlinkat", "readv", "realloc", "reallocarray", "realpath",
   "reboot", "recv", "recvfrom", "recvmmsg", "recvmsg", "regcomp",
   "regerror", "regexec", "regfree", "register_printf_function",
   "register_printf_modifier", "register_printf_specifier",
   "register_printf_type", "remap_file_pages", "remove", "removexattr",
   "remque", "rename", "renameat", "renameat2", "res_dnok", "res_hnok",
   "res_mailok", "res_mkquery", "res_nmkquery", "res_nquery",
   "res_nquerydomain", "res_nsearch", "res_nsend", "res_ownok", "res_query",
   "res_querydomain", "res_search", "res_send", "revoke", "rewind",
   "rewinddir", "rexec", "rexec_af", "rexecoptions", "rindex", "rmdir",
   "rpmatch", "rresvport", "rresvport_af", "ruserok", "ruserok_af",
   "ruserpass", "sbrk", "scalbn", "scalbnf", "scalbnl", "scandir",
   "scandir64", "scandirat", "scandirat64", "scanf",
   "sched_get_priority_max", "sched_get_priority_min", "sched_getaffinity",
   "sched_getcpu", "sched_getparam", "sched_getscheduler",
   "sched_rr_get_interval", "sched_setaffinity", "sched_setparam",
   "sched_setscheduler", "sched_yield", "secure_getenv", "seed48",
   "seed48_r", "seekdir", "select", "sem_clockwait", "sem_close",
   "sem_destroy", "sem_getvalue", "sem_init", "sem_open", "sem_post",
   "sem_timedwait", "sem_trywait", "sem_unlink", "sem_wait", "semctl",
   "semget", "semop", "semtimedop", "send", "sendfile", "sendfile64",
   "sendmmsg", "sendmsg", "sendto", "setaliasent", "setbuf", "setbuffer",
   "setcontext", "setdomainname", "setegid", "setenv", "seteuid", "setfsent",
   "setfsgid", "setfsuid", "setgid", "setgrent", "setgroups", "sethostent",
   "sethostid", "sethostname", "setipv4sourcefilter", "setitimer", "setjmp",
   "setlinebuf", "setlocale", "setlogin", "setlogmask", "setmntent",
   "setnetent", "setnetgrent", "setns", "setpgid", "setpgrp", "setpriority",
   "setprotoent", "setpwent", "setregid", "setresgid", "setresuid",
   "setreuid", "setrlimit", "setrlimit64", "setrpcent", "setservent",
   "setsgent", "setsid", "setsockopt", "setsourcefilter", "setspent",
   "setstate", "setstate_r", "settimeofday", "setttyent", "setuid",
   "setusershell", "setutent", "setutxent", "setvbuf", "setxattr",
   "sgetsgent", "sgetsgent_r", "sgetspent", "sgetspent_r", "shm_open",
   "shm_unlink", "shmat", "shmctl", "shmdt", "shmget", "shutdown",
   "sigabbrev_np", "sigaction", "sigaddset", "sigaltstack", "sigandset",
   "sigblock", "sigdelset", "sigdescr_np", "sigemptyset", "sigfillset",
   "siggetmask", "sighold", "sigignore", "siginterrupt", "sigisemptyset",
   "sigismember", "siglongjmp", "signal", "signalfd", "sigorset", "sigpause",
   "sigpending", "sigprocmask", "sigqueue", "sigrelse", "sigreturn",
   "sigset", "sigsetmask", "sigstack", "sigsuspend", "sigtimedwait",
   "sigwait", "sigwaitinfo", "sleep", "snprintf", "sockatmark", "socket",
   "socketpair", "splice", "sprintf", "sprofil", "srand", "srand48",
   "srand48_r", "srandom", "srandom_r", "sscanf", "ssignal", "stat",
   "stat64", "statfs", "statfs64", "statvfs", "statvfs64", "statx", "stderr",
   "stdin", "stdout", "stpcpy", "stpncpy", "strcasecmp", "strcasecmp_l",
   "strcasestr", "strcat", "strchr", "strchrnul", "strcmp", "strcoll",
   "strcoll_l", "strcpy", "strcspn", "strdup", "strerror", "strerror_l",
   "strerror_r", "strerrordesc_np", "strerrorname_np", "strfmon",
   "strfmon_l", "strfromd", "strfromf", "strfromf128", "strfromf32",
   "strfromf32x", "strfromf64", "strfromf64x", "strfroml", "strfry",
   "strftime", "strftime_l", "strlen", "strncasecmp", "strncasecmp_l",
   "strncat", "strncmp", "strncpy", "strndup", "strnlen", "strpbrk",
   "strptime", "strptime_l", "strrchr", "strsep", "strsignal", "strspn",
   "strstr", "strtod", "strtod_l", "strtof", "strtof128", "strtof128_l",
   "strtof32", "strtof32_l", "strtof32x", "strtof32x_l", "strtof64",
   "strtof64_l", "strtof64x", "strtof64x_l", "strtof_l", "strtoimax",
   "strtok", "strtok_r", "strtol", "strtol_l", "strtold", "strtold_l",
   "strtoll", "strtoll_l", "strtoq", "strtoul", "strtoul_l", "strtoull",
   "strtoull_l", "strtoumax", "strtouq", "strverscmp", "strxfrm",
   "strxfrm_l", "stty", "swab", "swapcontext", "swapoff", "swapon",
   "swprintf", "swscanf", "symlink", "symlinkat", "sync", "sync_file_range",
   "syncfs", "syscall", "sysconf", "sysinfo", "syslog", "system",
   "sysv_signal", "tcdrain", "tcflow", "tcflush", "tcgetattr", "tcgetpgrp",
   "tcgetsid", "tcsendbreak", "tcsetattr", "tcsetpgrp", "tdelete",
   "tdestroy", "tee", "telldir", "tempnam", "textdomain", "tfind", "tgkill",
   "thrd_create", "thrd_current", "thrd_detach", "thrd_equal", "thrd_exit",
   "thrd_join", "thrd_sleep", "thrd_yield", "time", "timegm", "timelocal",
   "timer_create", "timer_delete", "timer_getoverrun", "timer_gettime",
   "timer_settime", "timerfd_create", "timerfd_gettime", "timerfd_settime",
   "times", "timespec_get", "timespec_getres", "timezone", "tmpfile",
   "tmpfile64", "tmpnam", "tmpnam_r", "toascii", "tolower", "tolower_l",
   "toupper", "toupper_l", "towctrans", "towctrans_l", "towlower",
   "towlower_l", "towupper", "towupper_l", "truncate", "truncate64",
   "tsearch", "tss_create", "tss_delete", "tss_get", "tss_set", "ttyname",
   "ttyname_r", "ttyslot", "twalk", "twalk_r", "tzname", "tzset", "ualarm",
   "ulckpwdf", "ulimit", "umask", "umount", "umount2", "uname", "ungetc",
   "ungetwc", "unlink", "unlinkat", "unlockpt", "unsetenv", "unshare",
   "updwtmp", "updwtmpx", "uselocale", "usleep", "utime", "utimensat",
   "utimes", "utmpname", "utmpxname", "valloc", "vasprintf", "vdprintf",
   "verr", "verrx", "versionsort", "versionsort64", "vfork", "vfprintf",
   "vfscanf", "vfwprintf", "vfwscanf", "vhangup", "vlimit", "vmsplice",
   "vprintf", "vscanf", "vsnprintf", "vsprintf", "vsscanf", "vswprintf",
   "vswscanf", "vsyslog", "vwarn", "vwarnx", "vwprintf", "vwscanf", "wait",
   "wait3", "wait4", "waitid", "waitpid", "warn", "warnx", "wcpcpy",
   "wcpncpy", "wcrtomb", "wcscasecmp", "wcscasecmp_l", "wcscat", "wcschr",
   "wcschrnul", "wcscmp", "wcscoll", "wcscoll_l", "wcscpy", "wcscspn",
   "wcsdup", "wcsftime", "wcsftime_l", "wcslen", "wcsncasecmp",
   "wcsncasecmp_l", "wcsncat", "wcsncmp", "wcsncpy", "wcsnlen", "wcsnrtombs",
   "wcspbrk", "wcsrchr", "wcsrtombs", "wcsspn", "wcsstr", "wcstod",
   "wcstod_l", "wcstof", "wcstof128", "wcstof128_l", "wcstof32",
   "wcstof32_l", "wcstof32x", "wcstof32x_l", "wcstof64", "wcstof64_l",
   "wcstof64x", "wcstof64x_l", "wcstof_l", "wcstoimax", "wcstok", "wcstol",
   "wcstol_l", "wcstold", "wcstold_l", "wcstoll", "wcstoll_l", "wcstombs",
   "wcstoq", "wcstoul", "wcstoul_l", "wcstoull", "wcstoull_l", "wcstoumax",
   "wcstouq", "wcswcs", "wcswidth", "wcsxfrm", "wcsxfrm_l", "wctob",
   "wctomb", "wctrans", "wctrans_l", "wctype", "wctype_l", "wcwidth",
   "wmemchr", "wmemcmp", "wmemcpy", "wmemmove", "wmempcpy", "wmemset",
   "wordexp", "wordfree", "wprintf", "write", "writev", "wscanf"
  }

\* The version names of the C library are symbols of address 0: ctypes
\* finds no function and no error message either, and the interpreter dies
\* on the null message.
NullSymbols ==
  {
   "GLIBC_2.10", "GLIBC_2.11", "GLIBC_2.12", "GLIBC_2.13", "GLIBC_2.14",
   "GLIBC_2.15", "GLIBC_2.16", "GLIBC_2.17", "GLIBC_2.18", "GLIBC_2.2.5",
   "GLIBC_2.2.6", "GLIBC_2.22", "GLIBC_2.23", "GLIBC_2.24", "GLIBC_2.25",
   "GLIBC_2.26", "GLIBC_2.27", "GLIBC_2.28", "GLIBC_2.29", "GLIBC_2.3",
   "GLIBC_2.3.2", "GLIBC_2.3.3", "GLIBC_2.3.4", "GLIBC_2.30", "GLIBC_2.31",
   "GLIBC_2.32", "GLIBC_2.33", "GLIBC_2.34", "GLIBC_2.35", "GLIBC_2.36",
   "GLIBC_2.4", "GLIBC_2.5", "GLIBC_2.6", "GLIBC_2.7", "GLIBC_2.8",
   "GLIBC_2.9", "GLIBC_ABI_DT_RELR", "GLIBC_PRIVATE"
  }

\* The interpreter was killed by a segmentation fault.
SegFault == [kind |-> "SIGSEGV"]

\* CDLL.__init__(name): handle is the mock class instantiated, or "ctypes"
\* when ctypes.CDLL.__init__ loaded the library.
CDLL_init(name) ==
  IF _lib_to_mock(name) # "None"
  THEN [name |-> name, handle |-> _lib_to_mock(name), cached |-> {}]
  ELSE [name |-> name, handle |-> "ctypes", cached |-> {}]

\* The attributes ordinary lookup finds on a CDLL object: what __init__ or
\* an earlier lookup stored on it, and the attributes of its classes.
\* ctypes.CDLL.__init__, which the mock branch does not run, is what sets
\* _FuncPtr on the object.
CDLLAttrs(lib) ==
  ("_name" :> [kind |-> "str", val |-> lib.name])
  @@ ("_handle" :> [kind |-> "handle", val |-> lib.handle])
  @@ [n \in lib.cached |-> Found("_FuncPtr")]
  @@ ("_FuncPtr" :> IF lib.handle = "ctypes" THEN Found("PyCFuncPtrType")
                    ELSE Found("None"))
  @@ ("_func_flags_" :> Found("int"))
  @@ ("_func_restype_" :> Found("PyCSimpleType"))
  @@ [n \in {"__getattr__", "__getitem__", "__init__", "__repr__"} |->
        Found("method")]
  @@ ClassAttrs @@ ObjectAttrs

\* getattr(lib, name) on a CDLL object: the attributes the object has are
\* found without __getattr__; CDLL.__getattr__ hands the others to the mock
\* instance, or to ctypes.CDLL.__getattr__, whose value it does not return.
CDLL_getattr(lib, name) ==
  IF name \in DOMAIN CDLLAttrs(lib) THEN CDLLAttrs(lib)[name]
  ELSE IF lib.handle # "ctypes" THEN Mock_getattr(lib.handle, name)
  ELSE IF name \in RealSymbols THEN Found("None")
  ELSE IF name \in NullSymbols THEN SegFault
  ELSE AttributeError

\* ctypes.CDLL.__getattr__ stores the function it found on the object
CDLL_cached(lib, name) ==
  IF /\ name \notin DOMAIN CDLLAttrs(lib)
     /\ lib.handle = "ctypes"
     /\ name \in RealSymbols
  THEN lib.cached \cup {name}
  ELSE lib.cached

\* The C functions the mirror drivers call through the wrappers asdk and BMC.
AsdkCalls ==
  {"asdkInit", "asdkGetLastError", "asdkGet", "asdkSend", "asdkSet",
   "asdkSendPattern", "asdkReset", "asdkRelease"}

BMCCalls ==
  {"BMCConfigureLog", "BMCOpen", "BMCErrorString", "BMCSetArray",
   "BMCClearArray", "BMCClose"}

LibNames ==
  UNION {Range(MockClass(MockClasses[i]).libs) : i \in 1..Len(MockClasses)}
    \cup {"libc.so.6"}

AttrNames ==
  UNION {Range(MockClass(MockClasses[i]).functions) : i \in 1..Len(MockClasses)}
    \cup AsdkCalls \cup BMCCalls \cup {"printf", "puts", "GLIBC_2.2.5"}
    \cup {"libs", "functions", "_name", "_handle", "no_such_symbol"}
    \cup {"_FuncPtr", "_func_flags_", "_func_restype_", "__class__",
          "__doc__", "__dict__", "__init__", "__getitem__", "__getattr__",
          "__call__"}

NoCDLL == [name |-> "", handle |-> "", cached |-> {}]
NoLookup == [attr |-> "", out |-> [kind |-> ""]]

\* CDLL(name); loading a real library fails when the machine lacks it.
NewCDLL ==
  /\ \E name \in LibNames :
       \/ cdll' = CDLL_init(name)
       \/ /\ _lib_to_mock(name) = "None"
          /\ cdll' = NoCDLL
  /\ lookup' = NoLookup
  /\ UNCHANGED <<laserVars, mirrorVars>>

\* getattr(lib, name); the object is lost with the interpreter when the
\* lookup kills it.
GetAttr ==
  /\ cdll # NoCDLL
  /\ \E name \in AttrNames :
       /\ lookup' = [attr |-> name, out |-> CDLL_getattr(cdll, name)]
       /\ cdll' = IF CDLL_getattr(cdll, name).kind = SegFault.kind THEN NoCDLL
                  ELSE [cdll EXCEPT !.cached = CDLL_cached(cdll, name)]
  /\ UNCHANGED <<laserVars, mirrorVars>>

InitLibs == cdll = NoCDLL /\ lookup = NoLookup

NextLibs == NewCDLL \/ GetAttr

vars == <<laserVars, mirrorVars, libVars>>

Init ==
  /\ InitLaser /\ InitMirrors /\ InitLibs
  /\ active = Threads /\ quota = MaxConcCalls

InitSeq == InitLaser /\ InitMirrors /\ InitLibs /\ active = {1} /\ quota = MaxCalls

Next ==
  \E t \in Threads :
    \/ Call(t)
    \/ Enter(t)
    \/ Write(t)
    \/ Read1(t)
    \/ Read2(t)
    \/ Resume(t)

NextSeq ==
  \/ \E t \in Threads :
       \/ Call(t)
       \/ Enter(t)
       \/ Write(t)
       \/ Read1(t)
       \/ Read2(t)
       \/ Resume(t)
  \/ AlpaoImport
  \/ BMCNew

\* Concurrent callers of one laser.
Spec == Init /\ [][Next]_vars

\* One caller: the exchanges on the connection follow one another.
SpecSeq == InitSeq /\ [][NextSeq]_vars

\* The mock libraries under the testsuite's CDLL.
InitLibsOnly ==
  /\ InitLaser /\ InitMirrors /\ InitLibs
  /\ handshaking = TRUE
  /\ active = {} /\ quota = 0

SpecLibs == InitLibsOnly /\ [][NextLibs]_vars

(* ------------------------------- claims ------------------------------- *)

\* Thread t has written a command and _readline has not returned yet.
InExchange(t) == stack[t] # <<>> /\ Top(t).pc \in {"read1", "read2"}

\* Thread t's last top-level call was op and has returned.
Finished(t, op) == stack[t] = <<>> /\ lastcall[t].op = op

\* C1: every command/response exchange on the connection is made by a
\* thread that holds the device's comms lock, and no two threads are inside
\* an exchange at the same time.
C1_ExchangesSerialized ==
  /\ \A t \in Threads : InExchange(t) => lockOwner = t
  /\ \A t, u \in Threads : InExchange(t) /\ InExchange(u) => t = u

\* Two threads inside an exchange at once (the second half of C1 taken
\* alone).
NoOverlap == \A t, u \in Threads : InExchange(t) /\ InExchange(u) => t = u

\* C2: an exchange reads no line emitted for an earlier command and no line
\* of an earlier command is left in the input buffer; once _readline has
\* returned it has consumed every line the laser emitted for the command
\* and returned the first of them (nothing when the laser emitted none).
C2_ReplyBelongsToCommand ==
  \A t \in Threads :
    /\ ~xch[t].foreign
    /\ \A i \in 1..Len(rx) : ~(rx[i].by = t /\ rx[i].old)
    /\ xch[t].done =>
         /\ xch[t].own = Len(xch[t].emitted)
         /\ xch[t].reply = IF xch[t].emitted = <<>> THEN "" ELSE xch[t].emitted[1]

\* A data line and its handshake were both read and the data line returned.
C2_Witness ==
  /\ xch[1].done
  /\ Len(xch[1].emitted) = 2
  /\ xch[1].own = 2
  /\ xch[1].reply = "ON"

\* C3: when enable() has returned, the commands it wrote and the replies it
\* read begin with the three enabling commands and the emission query, each
\* followed by its reply, and it returned True exactly when the reply to
\* the query was "ON".
C3_Enable ==
  \A t \in Threads :
    Finished(t, "enable") =>
      /\ Len(log[t]) >= 8
      /\ SubSeq(log[t], 1, 8) =
           << "SOURce:TEMPerature:APRobe ON", "<reply>",
              "SOURce:AM:STATe ON", "<reply>",
              "SOURce:AM:EXTernal DIGital", "<reply>",
              "SOURce:AM:STATe?", "<reply>" >>
      /\ result[t] = Bool(isOnReply[t] = "ON")

\* enable() returned False because the laser answered the query with an
\* error line.
C3_Witness ==
  /\ Finished(1, "enable")
  /\ isOnReply[1] = "ERR-100"
  /\ result[1] = Bool(FALSE)

\* C4: when disable() has returned, it wrote the switch-off command, read
\* its reply, then the emission query and its reply, and it returned True
\* exactly when the reply to the query was not "ON".
C4_Disable ==
  \A t \in Threads :
    Finished(t, "disable") =>
      /\ Len(log[t]) >= 4
      /\ SubSeq(log[t], 1, 4) =
           << "SOURce:AM:STATe OFF", "<reply>", "SOURce:AM:STATe?", "<reply>" >>
      /\ result[t] = Bool(isOnReply[t] # "ON")

\* disable() returned False: the laser still reported "ON".
C4_Witness ==
  /\ Finished(1, "disable")
  /\ isOnReply[1] = "ON"
  /\ result[1] = Bool(FALSE)

\* C5: no step of any operation changes the _max_power and _min_power the
\* laser's constructor stored.
C5_CalibrationKept ==
  [][_max_power' = _max_power /\ _min_power' = _min_power]_vars

\* _set_power_mw has sent a power to the laser.
C5_Witness ==
  /\ Finished(1, "_set_power_mw")
  /\ lastcall[1].arg = 50
  /\ result[1].t = "str"

\* C7: looking up, on the mock of the Alpao or BMC library, a C function
\* the mirror driver calls gives a mock function.
C7_DriverCallsMocked ==
  /\ (cdll.handle = "MockLibasdk" /\ lookup.attr \in AsdkCalls)
       => lookup.out.kind = "MockFuncPtr"
  /\ (cdll.handle = "MockLibBMC" /\ lookup.attr \in BMCCalls)
       => lookup.out.kind = "MockFuncPtr"

\* The library name is listed by mock class cls.
Lists(cls, name) == name \in Range(MockClass(cls).libs)

IsMock(h) == h \in Range(MockClasses)

\* CDLL(name) is backed by the mock class listing the name, and by the real
\* loader when no mock class lists it.
BackedAsListed ==
  cdll # NoCDLL =>
    IF \E i \in 1..Len(MockClasses) : Lists(MockClasses[i], cdll.name)
    THEN IsMock(cdll.handle) /\ Lists(cdll.handle, cdll.name)
    ELSE cdll.handle = "ctypes"

\* The lookup gave a mock function pointer for a listed function and
\* AttributeError for any other name.
LookupAsListed ==
  lookup.out =
    IF lookup.attr \in Range(MockClass(cdll.handle).functions)
    THEN [kind |-> "MockFuncPtr", argtypes |-> "None", restype |-> "None"]
    ELSE [kind |-> "AttributeError"]

\* C8 as stated: the rule of LookupAsListed for every attribute name.
C8_EveryName ==
  /\ BackedAsListed
  /\ (IsMock(cdll.handle) /\ lookup.attr # "") => LookupAsListed

\* The names ordinary attribute lookup finds on the CDLL object or on the
\* mock instance, without __getattr__.
OwnAttributes == DOMAIN CDLLAttrs(cdll) \cup DOMAIN MockAttrs(cdll.handle)

\* C8, amended: the rule of LookupAsListed for every attribute name that
\* ordinary lookup does not find on the objects themselves.
C8_MockLookup ==
  /\ BackedAsListed
  /\ (IsMock(cdll.handle) /\ lookup.attr # "" /\ lookup.attr \notin OwnAttributes)
       => LookupAsListed

\* A function of the list was looked up on a mock library.
C8_Witness ==
  /\ cdll.name = "libBMC.so.3"
  /\ cdll.handle = "MockLibBMC"
  /\ lookup.attr = "BMCOpen"
  /\ lookup.out.kind = "MockFuncPtr"

====
